---------------------------- MODULE Spec2Model ----------------------------
(***************************************************************************)
(* Bermudan option pricing by backward induction (src/src/bermudan_option  *)
(* .py) over the rollback methods of src/src/methods, on top of the        *)
(* Hull-White model of src/src/hull_white_model.py.                        *)
(*                                                                         *)
(* Numbers.  A float is a fixed-point integer: the integer v stands for    *)
(* the real v / FixOne, products and quotients are rounded down to that    *)
(* precision, and NaN stands for every non-finite float (nan, inf).  The   *)
(* transcendental library functions are evaluated by rational stand-ins    *)
(* that keep the properties the code relies on:                            *)
(*   np.exp   Exp     positive, increasing, Exp(0) = 1, and Exp(a + b) =   *)
(*                    Exp(a) * Exp(b) for whole numbers a and b            *)
(*   np.sqrt  Sqrt    floor square root, NaN below zero                    *)
(*   norm.pdf NormPdf positive, even, decreasing in |z|                    *)
(*   norm.cdf NormCdf increasing from 0 to 1, NormCdf(0) = 1/2             *)
(* scipy's CubicSpline is evaluated as the piecewise-linear interpolant of *)
(* its knots (extended linearly outside them); its input validation        *)
(* (at least two finite, strictly increasing knots) is kept.               *)
(***************************************************************************)
EXTENDS Integers, Sequences, FiniteSets, TLC

-----------------------------------------------------------------------------
(* Bounds of the model *)

\* fixed-point precision: v stands for v / FixOne
FixOne == 64
\* exercise times are 1 .. MaxTime (in whole years)
MaxTime == 3
\* longest exercise schedule
MaxLen == 3
\* number of simulated paths of the Monte Carlo simulation
NPaths == 4
\* grid points of a quadrature method (nGridPoints) and the half width of its
\* grid in standard deviations (stdDevs)
NGrid == 3
NStdDevs == 2
\* seeds of the simulation are 0 .. MaxSeed
MaxSeed == 1
\* control variables and maximum polynomial degree of a Regression
MaxVars == 2
MaxDegree == 2
\* largest size of a tridiagonal system
MaxSize == 3

-----------------------------------------------------------------------------
(* Fixed-point arithmetic with NaN propagation *)

NaN == 0 - 1000000

IsNaN(a) == a = NaN

FInt(i) == i * FixOne

FAdd(a, b) == IF IsNaN(a) \/ IsNaN(b) THEN NaN ELSE a + b

FSub(a, b) == IF IsNaN(a) \/ IsNaN(b) THEN NaN ELSE a - b

FNeg(a) == IF IsNaN(a) THEN NaN ELSE 0 - a

FMul(a, b) == IF IsNaN(a) \/ IsNaN(b) THEN NaN ELSE (a * b) \div FixOne

FDiv(a, b) == IF IsNaN(a) \/ IsNaN(b) \/ b = 0 THEN NaN ELSE (a * FixOne) \div b

\* np.maximum: NaN if either argument is NaN
FMax(a, b) == IF IsNaN(a) \/ IsNaN(b) THEN NaN ELSE IF a >= b THEN a ELSE b

\* k * a and a / k for an integer k
FScale(k, a) == IF IsNaN(a) THEN NaN ELSE k * a

FOver(a, k) == IF IsNaN(a) THEN NaN ELSE a \div k

FAbs(a) == IF IsNaN(a) THEN NaN ELSE IF a >= 0 THEN a ELSE 0 - a

\* comparisons with NaN are false
FLt(a, b) == ~IsNaN(a) /\ ~IsNaN(b) /\ a < b

FLe(a, b) == ~IsNaN(a) /\ ~IsNaN(b) /\ a <= b

FGt(a, b) == ~IsNaN(a) /\ ~IsNaN(b) /\ a > b

\* the largest binary exponent of a float
MaxExponent == 20

\* np.exp: doubles with every unit of its argument and is linear between
\* whole arguments, so that Exp(a + b) = Exp(a) * Exp(b) for whole a and b;
\* inf above the largest float
Exp(q) == IF IsNaN(q) THEN NaN
          ELSE IF q >= MaxExponent * FixOne THEN NaN
          ELSE IF q >= 0 THEN 2^(q \div FixOne) * (FixOne + (q % FixOne))
          ELSE (FixOne + (q % FixOne)) \div 2^(0 - (q \div FixOne))

\* np.log is the inverse of Exp
Log(v) == IF IsNaN(v) \/ v <= 0 THEN NaN
          ELSE IF v >= FixOne
               THEN CHOOSE q \in { e * FixOne + ((v \div 2^e) - FixOne)
                                   : e \in {d \in 0..MaxExponent :
                                               2^d * FixOne <= v /\ v < 2^(d + 1) * FixOne} } : TRUE
               ELSE CHOOSE q \in { (v * 2^e - FixOne) - e * FixOne
                                   : e \in {d \in 1..MaxExponent :
                                               v * 2^d >= FixOne /\ v * 2^(d - 1) < FixOne} } : TRUE

\* np.sqrt
Sqrt(q) == IF IsNaN(q) \/ q < 0 THEN NaN
           ELSE CHOOSE r \in 0..(q * FixOne) :
                    r * r <= q * FixOne /\ (r + 1) * (r + 1) > q * FixOne

\* scipy.stats.norm.pdf
NormPdf(z) == IF IsNaN(z) THEN NaN ELSE FDiv(FixOne, 2 * (FixOne + FMul(z, z)))

\* np.pi
Pi == (355 * FixOne) \div 113

\* scipy.stats.norm.cdf
NormCdf(z) == IF IsNaN(z) THEN NaN
              ELSE (FixOne + FDiv(z, FixOne + FAbs(z))) \div 2

\* the element of a one-element set; The({e : v \in {d}}) is e with v bound
\* to the value of d
The(S) == CHOOSE r \in S : TRUE

\* sequences of floats
RECURSIVE FSum(_)
FSum(s) == IF s = <<>> THEN 0 ELSE FAdd(Head(s), FSum(Tail(s)))

HasNaN(s) == \E i \in 1..Len(s) : IsNaN(s[i])

Zeros(n) == [i \in 1..n |-> 0]

\* np.mean of a 1-d array (NaN for an empty one)
Mean(s) == IF s = <<>> THEN NaN ELSE FDiv(FSum(s), FInt(Len(s)))

\* np.searchsorted(a, t) (side='left') as a 0-based index: the number of
\* entries of the ascending array a that are < t
SearchSorted(a, t) == Cardinality({i \in 1..Len(a) : a[i] < t})

\* a[lo:hi] of Python on a sequence (0-based, hi exclusive, clipped)
Slice(a, lo, hi) ==
    LET h == IF hi > Len(a) THEN Len(a) ELSE hi
    IN  IF lo >= h THEN <<>> ELSE [i \in 1..(h - lo) |-> a[lo + i]]

-----------------------------------------------------------------------------
(* FlatForwardCurve and HullWhiteModel *)

\* FlatForwardCurve.discount
discount(rate, T) == Exp(FNeg(FMul(rate, T)))

\* the model instance of the pricing runs: a flat curve, one volatility knot
\* at time 0 (as in tests/test_bermudan_option.py)
TheModel ==
    [ rate              |-> FixOne \div 8,
      mean_reversion    |-> FixOne \div 4,
      volatility_times  |-> << 0 >>,
      volatility_values |-> << FixOne >> ]

G(hw, t, T) ==
    FDiv(FSub(FixOne, Exp(FNeg(FMul(hw.mean_reversion, T - t)))), hw.mean_reversion)

G_prime(hw, t, T) == Exp(FNeg(FMul(hw.mean_reversion, T - t)))

\* one step of the recursion  y(t) = G'(s,t)^2 y(s) + sigma^2 [1 - exp{-2a(t-s)}] / (2a)
yStep(hw, t0, y0, s1, t) ==
    FAdd( FMul(FMul(G_prime(hw, t0, t), G_prime(hw, t0, t)), y0),
          FDiv( FMul( FMul(s1, s1),
                      FSub(FixOne, Exp(FNeg(FMul(2 * hw.mean_reversion, t - t0)))) ),
                2 * hw.mean_reversion ) )

\* HullWhiteModel.__init__: the entry y_[i] (1-based) of the pre-calculated grid
RECURSIVE y_(_, _)
y_(hw, i) ==
    IF i = 1
    THEN yStep(hw, 0, 0, hw.volatility_values[1], hw.volatility_times[1])
    ELSE yStep(hw, hw.volatility_times[i - 1], y_(hw, i - 1),
               hw.volatility_values[i], hw.volatility_times[i])

Min(a, b) == IF a <= b THEN a ELSE b

\* HullWhiteModel.sigma
sigma(hw, t) ==
    LET idx == SearchSorted(hw.volatility_times, t)
    IN  hw.volatility_values[Min(idx, Len(hw.volatility_values) - 1) + 1]

\* HullWhiteModel.y with a recursion that always starts from y0 = 0
yFromZero(hw, t) ==
    LET idx == SearchSorted(hw.volatility_times, t)
        t0  == IF idx = 0 THEN 0 ELSE hw.volatility_times[idx]
        s1  == hw.volatility_values[Min(idx, Len(hw.volatility_values) - 1) + 1]
    IN  yStep(hw, t0, 0, s1, t)

\* HullWhiteModel.y
y(hw, t) ==
    LET idx == SearchSorted(hw.volatility_times, t)
        t0  == IF idx = 0 THEN 0 ELSE hw.volatility_times[idx]
        y0  == IF idx = 0 THEN 0 ELSE y_(hw, idx)
        s1  == hw.volatility_values[Min(idx, Len(hw.volatility_values) - 1) + 1]
    IN  yStep(hw, t0, y0, s1, t)

\* HullWhiteModel.risk_neutral_expectation
risk_neutral_expectation(hw, t, xt, T) ==
    LET f(u) == FMul(G_prime(hw, u, T), y(hw, u))
        integral == FMul( (T - t) \div 6,
                          FAdd(FAdd(f(t), FScale(4, f((t + T) \div 2))), f(T)) )
    IN  FAdd(FMul(G_prime(hw, t, T), xt), integral)

\* HullWhiteModel.T_forward_expectation
T_forward_expectation(hw, t, xt, T) ==
    FMul(G_prime(hw, t, T), FAdd(xt, FMul(G(hw, t, T), y(hw, t))))

\* HullWhiteModel.variance
variance(hw, t, T) ==
    FSub(y(hw, T), FMul(FMul(G_prime(hw, t, T), G_prime(hw, t, T)), y(hw, t)))

\* HullWhiteModel.zero_bond
zero_bond(hw, t, xt, T) ==
    LET g == G(hw, t, T)
    IN  FMul( FDiv(discount(hw.rate, T), discount(hw.rate, t)),
              Exp( FSub( FNeg(FMul(g, xt)),
                         FOver(FMul(FMul(g, g), y(hw, t)), 2) ) ) )

\* HullWhiteModel.size
size == 2

\* HullWhiteModel.factors
factors == 1

\* HullWhiteModel.initial_values
initial_values == << 0, 0 >>

\* HullWhiteModel.zero_bond_payoff
zero_bond_payoff(hw, X, t, T) == [p \in 1..Len(X[1]) |-> zero_bond(hw, t, X[1][p], T)]

\* HullWhiteModel.numeraire: X is a 2-d array (a sequence of rows)
numeraire(hw, X, t) ==
    [p \in 1..Len(X[2]) |-> FDiv(Exp(X[2][p]), discount(hw.rate, t))]

-----------------------------------------------------------------------------
(* numpy arrays.  A state batch x is [ndim, v]: v is the sequence of its    *)
(* points if ndim = 1 and the sequence of its rows if ndim = 2.  U and H   *)
(* are 1-d and are plain sequences.                                        *)

Arr1(v) == [ndim |-> 1, v |-> v]

Arr2(rows) == [ndim |-> 2, v |-> rows]

\* x.shape[-1]
NPoints(x) == IF x.ndim = 1 THEN Len(x.v) ELSE Len(x.v[1])

\* x.reshape((-1, x.shape[-1]))
Reshape2D(x) == IF x.ndim = 1 THEN Arr2(<< x.v >>) ELSE x

\* np.linspace(start, stop, num)
Linspace(start, stop, num) ==
    [i \in 1..num |->
        IF num = 1 THEN start
        ELSE IF i = num THEN stop
        ELSE FAdd(start, FOver(FScale(i - 1, FSub(stop, start)), num - 1))]

\* numpy broadcasting of two 1-d arrays: equal lengths, or one of length 1
Broadcastable(a, b) == Len(a) = Len(b) \/ Len(a) = 1 \/ Len(b) = 1

BLen(a, b) == IF Len(a) >= Len(b) THEN Len(a) ELSE Len(b)

BAt(a, i) == IF Len(a) = 1 THEN a[1] ELSE a[i]

\* np.maximum(U1, H1)
Maximum(a, b) == [i \in 1..BLen(a, b) |-> FMax(BAt(a, i), BAt(b, i))]

\* what a call returns: a pair (x0, H0), or the exception it raises
Returned(x0, H0) == [ok |-> TRUE, x0 |-> x0, H0 |-> H0, err |-> "none"]

Raised(e) == [ok |-> FALSE, x0 |-> Arr1(<<>>), H0 |-> <<>>, err |-> e]

-----------------------------------------------------------------------------
(* scipy: integrate.simps, interpolate.CubicSpline, hermgauss *)

\* _basic_simps on the three points i, i+1, i+2 (1-based) of an irregular grid
BasicSimps(yy, xx, i) ==
    LET h0   == FSub(xx[i + 1], xx[i])
        h1   == FSub(xx[i + 2], xx[i + 1])
        hsum == FAdd(h0, h1)
    IN  FMul( FOver(hsum, 6),
              FAdd( FAdd( FMul(yy[i], FSub(FInt(2), FDiv(h1, h0))),
                          FMul(yy[i + 1], FDiv(FMul(hsum, hsum), FMul(h0, h1))) ),
                    FMul(yy[i + 2], FSub(FInt(2), FDiv(h0, h1))) ) )

\* the sum of _basic_simps over the triples starting at first, first+2, ... , last
RECURSIVE SimpsRange(_, _, _, _)
SimpsRange(yy, xx, first, last) ==
    IF first > last THEN 0
    ELSE FAdd(BasicSimps(yy, xx, first), SimpsRange(yy, xx, first + 2, last))

Trapz(yy, xx, i) == FOver(FMul(FSub(xx[i + 1], xx[i]), FAdd(yy[i + 1], yy[i])), 2)

\* scipy.integrate.simps(y, x) with even='avg'
Simps(yy, xx) ==
    LET N == Len(yy)
    IN  IF N < 2 THEN 0
        ELSE IF N % 2 = 1 THEN SimpsRange(yy, xx, 1, N - 2)
        ELSE FAdd( FOver(FAdd(SimpsRange(yy, xx, 1, N - 3), SimpsRange(yy, xx, 2, N - 2)), 2),
                   FOver(FAdd(Trapz(yy, xx, N - 1), Trapz(yy, xx, 1)), 2) )

StrictlyIncreasing(s) == \A i \in 1..(Len(s) - 1) : FLt(s[i], s[i + 1])

\* CubicSpline(x, y) raises ValueError unless x has at least 2 finite, strictly
\* increasing entries and y has one finite value per entry of x
SplineOk(xx, yy) ==
    /\ Len(xx) >= 2
    /\ Len(yy) = Len(xx)
    /\ ~HasNaN(xx)
    /\ ~HasNaN(yy)
    /\ StrictlyIncreasing(xx)

\* the 1-based segment of the spline that evaluates z (the first or the last
\* one outside the knots)
Segment(xx, z) ==
    LET below == Cardinality({j \in 1..Len(xx) : xx[j] <= z})
    IN  IF below = 0 THEN 1 ELSE IF below >= Len(xx) THEN Len(xx) - 1 ELSE below

\* the coefficient c[3] (value) and c[2] (slope) of segment k; c[1] = c[0] = 0
SplineC3(xx, yy, k) == yy[k]

SplineC2(xx, yy, k) == FDiv(FSub(yy[k + 1], yy[k]), FSub(xx[k + 1], xx[k]))

\* CubicSpline(x, y)(z)
SplineEval(xx, yy, z) ==
    IF IsNaN(z) THEN NaN
    ELSE LET k == Segment(xx, z)
         IN  FAdd(SplineC3(xx, yy, k), FMul(SplineC2(xx, yy, k), FSub(z, xx[k])))

\* np.polynomial.hermite.hermgauss(degree): abscissas and weights
hermgauss(degree) ==
    IF degree = 1 THEN [hermX |-> << 0 >>, hermW |-> << Sqrt(Pi) >>]
    ELSE [hermX |-> << FNeg(Sqrt(FixOne \div 2)), Sqrt(FixOne \div 2) >>,
          hermW |-> << Sqrt(Pi) \div 2, Sqrt(Pi) \div 2 >>]

-----------------------------------------------------------------------------
(* DensityIntegration and the quadrature variants *)


SimpsonIntegration(hw) ==
    [kind |-> "Simpson", hwModel |-> hw, nGridPoints |-> NGrid, stdDevs |-> NStdDevs]

HermiteIntegration(hw, degree) ==
    [kind |-> "Hermite", hwModel |-> hw, nGridPoints |-> NGrid, stdDevs |-> NStdDevs,
     herm |-> hermgauss(degree)]

CubicSplineExactIntegration(hw) ==
    [kind |-> "CubicSplineExact", hwModel |-> hw, nGridPoints |-> NGrid,
     stdDevs |-> NStdDevs]

\* the decorator copies the grid of the method it wraps
DensityIntegrationWithBreakEven(wrapped) ==
    [kind |-> "BreakEven", hwModel |-> wrapped.hwModel, nGridPoints |-> wrapped.nGridPoints,
     stdDevs |-> wrapped.stdDevs, method |-> wrapped]

\* DensityIntegration.states
DensityStates(m, expiryTime) ==
    LET sig == Sqrt(variance(m.hwModel, 0, expiryTime))
    IN  IF sig = 0 THEN Arr1(<< 0 >>)
        ELSE Arr1(Linspace(FNeg(FScale(m.stdDevs, sig)), FScale(m.stdDevs, sig),
                           m.nGridPoints))

\* SimpsonIntegration.roll_back: the entry V0[i] for the state x0i
SimpsonValue(hw, T0, T1, x0i, xx, V, sig) ==
    The({ FMul( zero_bond(hw, T0, x0i, T1),
                Simps([k \in 1..Len(xx) |->
                          FDiv(FMul(V[k], NormPdf(FDiv(FSub(xx[k], mu), sig))), sig)], xx) )
          : mu \in {T_forward_expectation(hw, T0, x0i, T1)} })

\* SimpsonIntegration.roll_back
SimpsonRollBack(m, T0, T1, x1, U1, H1) ==
    IF ~Broadcastable(U1, H1) THEN Raised("ValueError")
    ELSE IF BLen(U1, H1) < Len(x1.v) THEN Raised("IndexError")
    ELSE The({ Returned(x0, [i \in 1..Len(x0.v) |->
                               SimpsonValue(m.hwModel, T0, T1, x0.v[i], x1.v, V, sig)])
               : x0  \in {DensityStates(m, T0)},
                 sig \in {Sqrt(variance(m.hwModel, T0, T1))},
                 V   \in {Maximum(U1, H1)} })

\* HermiteIntegration.roll_back: the sum over the abscissas 1 .. k
RECURSIVE HermiteSum(_, _, _, _, _, _)
HermiteSum(herm, xx, Vy, sig, mu, k) ==
    IF k = 0 THEN 0
    ELSE FAdd( HermiteSum(herm, xx, Vy, sig, mu, k - 1),
               FMul( herm.hermW[k],
                     SplineEval(xx, Vy, FAdd(FMul(FMul(Sqrt(FInt(2)), sig), herm.hermX[k]), mu)) ) )

\* HermiteIntegration.roll_back: the entry V0[i] for the state x0i
HermiteValue(hw, herm, T0, T1, x0i, xx, Vy, sig) ==
    The({ FMul( zero_bond(hw, T0, x0i, T1),
                FDiv(HermiteSum(herm, xx, Vy, sig, mu, Len(herm.hermX)), Sqrt(Pi)) )
          : mu \in {T_forward_expectation(hw, T0, x0i, T1)} })

\* HermiteIntegration.roll_back
HermiteRollBack(m, T0, T1, x1, U1, H1) ==
    IF ~Broadcastable(U1, H1) \/ ~SplineOk(x1.v, Maximum(U1, H1))
    THEN Raised("ValueError")
    ELSE The({ Returned(x0, [i \in 1..Len(x0.v) |->
                               HermiteValue(m.hwModel, m.herm, T0, T1, x0.v[i], x1.v, Vy, sig)])
               : x0  \in {DensityStates(m, T0)},
                 sig \in {Sqrt(variance(m.hwModel, T0, T1))},
                 Vy  \in {Maximum(U1, H1)} })

\* CubicSplineExactIntegration.roll_back, lines 128-136: the moment integrals
\* I0 .. I3 of segment k and the sum over the segments 1 .. k
MomentI0(F0, k) == FSub(F0[k + 1], F0[k])

MomentI1(sig, xBar, F0, F1, k) ==
    FSub( FMul(sig, FSub(F1[k + 1], F1[k])),
          FMul(FMul(sig, xBar[k]), MomentI0(F0, k)) )

MomentI2(sig, xBar, F0, F1, F2, k) ==
    FSub( FSub( FMul(FMul(sig, sig), FSub(F2[k + 1], F2[k])),
                FMul(FScale(2, FMul(sig, xBar[k])), MomentI1(sig, xBar, F0, F1, k)) ),
          FMul(FMul(FMul(sig, sig), FMul(xBar[k], xBar[k])), MomentI0(F0, k)) )

MomentI3(sig, xBar, F0, F1, F2, F3, k) ==
    FSub( FSub( FSub( FMul(FMul(FMul(sig, sig), sig), FSub(F3[k + 1], F3[k])),
                      FMul(FScale(3, FMul(sig, xBar[k])), MomentI2(sig, xBar, F0, F1, F2, k)) ),
                FMul( FScale(3, FMul(FMul(sig, sig), FMul(xBar[k], xBar[k]))),
                      MomentI1(sig, xBar, F0, F1, k) ) ),
          FMul( FMul(FMul(FMul(sig, sig), sig), FMul(FMul(xBar[k], xBar[k]), xBar[k])),
                MomentI0(F0, k) ) )

RECURSIVE MomentSum(_, _, _, _, _, _, _, _, _)
MomentSum(Vx, Vy, sig, xBar, F0, F1, F2, F3, k) ==
    IF k = 0 THEN 0
    ELSE FAdd( MomentSum(Vx, Vy, sig, xBar, F0, F1, F2, F3, k - 1),
               FAdd( FAdd( FMul(SplineC3(Vx, Vy, k), MomentI0(F0, k)),
                           FMul(SplineC2(Vx, Vy, k), MomentI1(sig, xBar, F0, F1, k)) ),
                     FAdd( FMul(0, MomentI2(sig, xBar, F0, F1, F2, k)),
                           FMul(0, MomentI3(sig, xBar, F0, F1, F2, F3, k)) ) ) )

\* lines 118-127: the coefficients F0 .. F3 at the knots, for xBar, Phi, PhiPrime
MomentIntegral(Vx, Vy, sig, xBar, Phi, PhiPrime) ==
    The({ MomentSum(Vx, Vy, sig, xBar, F0, F1, F2, F3, Len(Vx) - 1)
          : F0 \in {Phi},
            F1 \in {[k \in 1..Len(Vx) |-> FNeg(PhiPrime[k])]},
            F2 \in {[k \in 1..Len(Vx) |-> FSub(Phi[k], FMul(xBar[k], PhiPrime[k]))]},
            F3 \in {[k \in 1..Len(Vx) |->
                       FNeg(FMul(FAdd(FMul(xBar[k], xBar[k]), FInt(2)), PhiPrime[k]))]} })

\* CubicSplineExactIntegration.roll_back: the entry V0[i] for the state x0i
CubicSplineExactValue(hw, T0, T1, x0i, Vx, Vy, sig) ==
    The({ FMul( zero_bond(hw, T0, x0i, T1),
                MomentIntegral(Vx, Vy, sig, xBar,
                               [k \in 1..Len(Vx) |-> NormCdf(xBar[k])],
                               [k \in 1..Len(Vx) |-> NormPdf(xBar[k])]) )
          : xBar \in { The({ [k \in 1..Len(Vx) |-> FDiv(FSub(Vx[k], mu), sig)]
                             : mu \in {T_forward_expectation(hw, T0, x0i, T1)} }) } })

\* CubicSplineExactIntegration.roll_back
CubicSplineExactRollBack(m, T0, T1, x1, U1, H1) ==
    IF ~Broadcastable(U1, H1) \/ ~SplineOk(x1.v, Maximum(U1, H1))
    THEN Raised("ValueError")
    ELSE The({ Returned(x0, [i \in 1..Len(x0.v) |->
                               CubicSplineExactValue(m.hwModel, T0, T1, x0.v[i], x1.v, Vy, sig)])
               : x0  \in {DensityStates(m, T0)},
                 sig \in {Sqrt(variance(m.hwModel, T0, T1))},
                 Vy  \in {Maximum(U1, H1)} })

\* the quadrature variant that a method object dispatches roll_back to
QuadRollBack(m, T0, T1, x1, U1, H1) ==
    IF m.kind = "Simpson" THEN SimpsonRollBack(m, T0, T1, x1, U1, H1)
    ELSE IF m.kind = "Hermite" THEN HermiteRollBack(m, T0, T1, x1, U1, H1)
    ELSE CubicSplineExactRollBack(m, T0, T1, x1, U1, H1)

\* U1 - H1
Minus(a, b) == [i \in 1..BLen(a, b) |-> FSub(BAt(a, i), BAt(b, i))]

\* lV0 + uV0
Plus(a, b) == [i \in 1..BLen(a, b) |-> FAdd(BAt(a, i), BAt(b, i))]

\* the roots of CubicSpline(xx, dd) in segment k (1-based): none or one, and
\* the start of the segment followed by nan where the spline is identically zero
SegmentRoots(xx, dd, k) ==
    IF dd[k] = 0 /\ dd[k + 1] = 0 THEN << xx[k], NaN >>
    ELSE IF dd[k] = 0 THEN << xx[k] >>
    ELSE IF (dd[k] < 0 /\ dd[k + 1] > 0) \/ (dd[k] > 0 /\ dd[k + 1] < 0)
    THEN << FAdd(xx[k], FDiv(FMul(FNeg(dd[k]), FSub(xx[k + 1], xx[k])),
                             FSub(dd[k + 1], dd[k]))) >>
    ELSE IF k = Len(xx) - 1 /\ dd[k + 1] = 0 THEN << xx[k + 1] >>
    ELSE << >>

\* CubicSpline(xx, dd).roots(discontinuity=False, extrapolate=False)
RECURSIVE SplineRoots(_, _, _)
SplineRoots(xx, dd, k) ==
    IF k >= Len(xx) THEN << >>
    ELSE SegmentRoots(xx, dd, k) \o SplineRoots(xx, dd, k + 1)

\* np.where(x1 < xStar), as an ascending sequence of the indices from i on
RECURSIVE WhereLess(_, _, _)
WhereLess(xx, xStar, i) ==
    IF i > Len(xx) THEN << >>
    ELSE (IF FLt(xx[i], xStar) THEN << i >> ELSE << >>) \o WhereLess(xx, xStar, i + 1)

\* np.where(x1 > xStar), as an ascending sequence of the indices from i on
RECURSIVE WhereGreater(_, _, _)
WhereGreater(xx, xStar, i) ==
    IF i > Len(xx) THEN << >>
    ELSE (IF FGt(xx[i], xStar) THEN << i >> ELSE << >>) \o WhereGreater(xx, xStar, i + 1)

Take(a, idx) == [j \in 1..Len(idx) |-> a[idx[j]]]

\* lines 45-57: the two sub-grids for the break-even state xStar
BreakEvenGrids(x1, U1, H1, roots, xStar, VStar, lRange, uRange) ==
    [ roots |-> roots, xStar |-> xStar, VStar |-> VStar,
      lX1 |-> Take(x1.v, lRange) \o << xStar >>,
      lU1 |-> Take(U1, lRange) \o << VStar >>,
      lH1 |-> Take(H1, lRange) \o << VStar >>,
      uX1 |-> << xStar >> \o Take(x1.v, uRange),
      uU1 |-> << VStar >> \o Take(U1, uRange),
      uH1 |-> << VStar >> \o Take(H1, uRange) ]

BreakEvenAt(x1, U1, H1, roots, xStar) ==
    The({ BreakEvenGrids(x1, U1, H1, roots, xStar, VStar, lRange, uRange)
          : VStar  \in {SplineEval(x1.v, U1, xStar)},
            lRange \in {WhereLess(x1.v, xStar, 1)},
            uRange \in {WhereGreater(x1.v, xStar, 1)} })

\* DensityIntegrationWithBreakEven.roll_back up to the calls of the wrapped
\* method: the roots, the break-even state and the two sub-grids
BreakEvenSplit(x1, U1, H1) ==
    The({ IF roots = << >>
          THEN [ roots |-> roots, xStar |-> NaN, VStar |-> NaN,
                 lX1 |-> << >>, lU1 |-> << >>, lH1 |-> << >>,
                 uX1 |-> << >>, uU1 |-> << >>, uH1 |-> << >> ]
          ELSE BreakEvenAt(x1, U1, H1, roots, roots[1])
          : roots \in {SplineRoots(x1.v, Minus(U1, H1), 1)} })

\* lines 50-59: the two calls of the wrapped method and the sum of their results
BreakEvenSum(wrapped, T0, T1, sp) ==
    The({ IF ~l.ok THEN l
          ELSE The({ IF ~u.ok THEN u ELSE Returned(u.x0, Plus(l.H0, u.H0))
                     : u \in {QuadRollBack(wrapped, T0, T1, Arr1(sp.uX1), sp.uU1, sp.uH1)} })
          : l \in {QuadRollBack(wrapped, T0, T1, Arr1(sp.lX1), sp.lU1, sp.lH1)} })

\* DensityIntegrationWithBreakEven.roll_back
BreakEvenRollBack(m, T0, T1, x1, U1, H1) ==
    IF ~Broadcastable(U1, H1) \/ ~SplineOk(x1.v, Minus(U1, H1))
    THEN Raised("ValueError")
    ELSE The({ IF sp.roots = << >>
               THEN QuadRollBack(m.method, T0, T1, x1, U1, H1)
               ELSE IF ~SplineOk(x1.v, U1) THEN Raised("ValueError")
               ELSE BreakEvenSum(m.method, T0, T1, sp)
               : sp \in {BreakEvenSplit(x1, U1, H1)} })

-----------------------------------------------------------------------------
(* Regression (src/src/methods/regression.py) *)

\* range(k) of Python as a sequence
Range(k) == [i \in 1..k |-> i - 1]

RECURSIVE Concat(_)
Concat(ss) == IF ss = << >> THEN << >> ELSE Head(ss) \o Concat(Tail(ss))

\* a variant of multi_index_set that lets every variable take every degree
\* below k
RECURSIVE multi_index_set_box(_, _)
multi_index_set_box(n, k) ==
    IF n = 1 THEN [j \in 1..k |-> << Range(k)[j] >>]
    ELSE Concat([j \in 1..k |->
                    LET sub == multi_index_set_box(n - 1, k)
                    IN  [q \in 1..Len(sub) |-> << Range(k)[j] >> \o sub[q]]])

\* multi_index_set(n, k): polynomial degrees for n variables up to order k-1
RECURSIVE multi_index_set(_, _)
multi_index_set(n, k) ==
    IF n = 1 THEN [j \in 1..k |-> << Range(k)[j] >>]
    ELSE Concat([j \in 1..k |->
                    LET sub == multi_index_set(n - 1, k - Range(k)[j])
                    IN  [q \in 1..Len(sub) |-> << Range(k)[j] >> \o sub[q]]])

\* a ** e in fixed point, for an integer exponent e >= 0
RECURSIVE FPow(_, _)
FPow(a, e) == IF e = 0 THEN FixOne ELSE FMul(a, FPow(a, e - 1))

\* Regression.monomials for a control matrix (rows of controls, one column
\* per path): one row per multi-index
monomials(multi_idx_set, control) ==
    LET RECURSIVE Prod(_, _, _)
        Prod(i, j, p) ==
            IF j = 0 THEN FixOne
            ELSE FMul(Prod(i, j - 1, p), FPow(control[j][p], multi_idx_set[i][j]))
    IN  [i \in 1..Len(multi_idx_set) |->
            [p \in 1..Len(control[1]) |-> Prod(i, Len(multi_idx_set[i]), p)]]

Dot(a, b) == FSum([p \in 1..Len(a) |-> FMul(a[p], b[p])])

\* scipy.linalg.lstsq(A, observations) for A = M^T: the least-squares solution
\* of smallest norm for one or two basis rows in M.  For more rows a stand-in
\* with one coefficient per row, which takes the rows as orthogonal.
Solve2(g11, g12, g22, r1, r2) ==
    LET det == FSub(FMul(g11, g22), FMul(g12, g12))
        tr  == FAdd(g11, g22)
    IN  IF IsNaN(det) THEN << NaN, NaN >>
        ELSE IF det # 0
        THEN << FDiv(FSub(FMul(g22, r1), FMul(g12, r2)), det),
                FDiv(FSub(FMul(g11, r2), FMul(g12, r1)), det) >>
        ELSE IF tr = 0 THEN << 0, 0 >>
        ELSE << FDiv(r1, tr), FDiv(r2, tr) >>

lstsq(M, observations) ==
    IF Len(M) = 1
    THEN The({ << IF g = 0 THEN 0 ELSE FDiv(Dot(M[1], observations), g) >>
               : g \in {Dot(M[1], M[1])} })
    ELSE IF Len(M) = 2
    THEN The({ Solve2(g11, g12, g22, r1, r2)
               : g11 \in {Dot(M[1], M[1])}, g12 \in {Dot(M[1], M[2])},
                 g22 \in {Dot(M[2], M[2])},
                 r1 \in {Dot(M[1], observations)}, r2 \in {Dot(M[2], observations)} })
    ELSE [i \in 1..Len(M) |->
            The({ IF g = 0 THEN 0 ELSE FDiv(Dot(M[i], observations), g)
                  : g \in {Dot(M[i], M[i])} })]

\* Regression.__init__
Regression(controls, observations, max_polynomial_degree) ==
    The({ [ max_polynomial_degree |-> max_polynomial_degree,
            multi_idx_set |-> mis,
            beta |-> lstsq(monomials(mis, controls), observations) ]
          : mis \in {multi_index_set(Len(controls), max_polynomial_degree + 1)} })

\* Regression.value
RegressionValue(R, control) ==
    The({ [p \in 1..Len(mm[1]) |-> FSum([i \in 1..Len(beta) |-> FMul(beta[i], mm[i][p])])]
          : mm \in {monomials(R.multi_idx_set, control)}, beta \in {R.beta} })

-----------------------------------------------------------------------------
(* MonteCarloSimulation (src/src/monte_carlo_simulation.py) *)

\* np.random.RandomState(seed).standard_normal(...): the draw for time step i,
\* factor f and path p is a fixed function of the seed
standard_normal(seed, i, f, p) ==
    FInt((((seed + 1) * (i * i + 2 * p) + i + f + (p \div 3)) % 3) - 1)

\* HullWhiteModel.evolve on a batch X0 (rows x and s, one column per path)
evolve(hw, t0, X0, dt, dW) ==
    The({ << x1, [p \in 1..Len(X0[1]) |->
                    FAdd(X0[2][p], FOver(FMul(FAdd(X0[1][p], x1[p]), dt), 2))] >>
          : x1 \in { The({ [p \in 1..Len(X0[1]) |->
                              FAdd(risk_neutral_expectation(hw, t0, X0[1][p], t0 + dt),
                                   FMul(nu, dW[1][p]))]
                           : nu \in {Sqrt(variance(hw, t0, t0 + dt))} }) } })

\* MonteCarloSimulation.__init__
\* the rows X[0], ..., X[i-1] of the path tensor after i - 1 passes of the loop
RECURSIVE SimulatedX(_, _, _, _, _)
SimulatedX(model, times, n_paths, dW, i) ==
    IF i = 1
    THEN << [d \in 1..size |-> [p \in 1..n_paths |-> initial_values[d]]] >>
    ELSE The({ Append(X, evolve(model, times[i - 1], X[i - 1],
                                times[i] - times[i - 1], dW[i - 1]))
               : X \in {SimulatedX(model, times, n_paths, dW, i - 1)} })

\* MonteCarloSimulation.__init__
MonteCarloSimulation(model, times, n_paths, seed) ==
    The({ [ model |-> model, times |-> times, n_paths |-> n_paths, dW |-> dW,
            X |-> SimulatedX(model, times, n_paths, dW, Len(times)) ]
          : dW \in { [i \in 1..(Len(times) - 1) |->
                        [f \in 1..factors |->
                            [p \in 1..n_paths |-> standard_normal(seed, i, f, p)]]] } })

-----------------------------------------------------------------------------
(* AmcSolver and AmcSolverOnlyExerciseRegression (src/src/methods/amc_solver.py) *)

\* the controls strategies
StateVariableControls == [kind |-> "StateVariable", maturity |-> 0]

CoterminalRateControls(model, maturity) == [kind |-> "CoterminalRate", maturity |-> maturity]

\* controls.__call__(X, t) for a batch X (rows x and s): a matrix with one row
\* per control and one column per path
Controls(c, hw, X, t) ==
    IF c.kind = "StateVariable" THEN << X[1] >>
    ELSE << [p \in 1..Len(X[1]) |->
               FDiv(FNeg(Log(zero_bond(hw, t, X[1][p], c.maturity))), c.maturity - t)] >>

\* int(split_ratio * n_paths)
IntOf(a) == IF a >= 0 THEN a \div FixOne ELSE 0 - ((0 - a) \div FixOne)

\* AmcSolver.__init__
AmcSolver(simulation, max_polynomial_degree, split_ratio, controls) ==
    [ kind |-> "Amc",
      simulation |-> simulation,
      max_polynomial_degree |-> max_polynomial_degree,
      minSampleIdx |-> IntOf(FMul(split_ratio, FInt(simulation.n_paths))),
      controls |-> controls ]

\* AmcSolverOnlyExerciseRegression.__init__: AmcSolver.__init__ is called
\* without the controls argument
AmcSolverOnlyExerciseRegression(simulation, max_polynomial_degree, split_ratio, controls) ==
    [ AmcSolver(simulation, max_polynomial_degree, split_ratio, StateVariableControls)
        EXCEPT !.kind = "AmcOnlyExercise" ]

\* AmcSolver.nearest_index that returns the earlier of two equally near times
nearest_indexEarlier(m, t) ==
    LET times == m.simulation.times
        idx   == SearchSorted(times, t)
    IN  IF idx > 0 /\ ( idx = Len(times)
                        \/ FAbs(t - times[idx]) <= FAbs(t - times[idx + 1]) )
        THEN idx - 1
        ELSE idx

\* AmcSolver.nearest_index, as a 0-based index
nearest_index(m, t) ==
    LET times == m.simulation.times
        idx   == SearchSorted(times, t)
    IN  IF idx > 0 /\ ( idx = Len(times)
                        \/ FAbs(t - times[idx]) < FAbs(t - times[idx + 1]) )
        THEN idx - 1
        ELSE idx

\* AmcSolver.states
AmcStates(m, expiryTime) == Arr2(m.simulation.X[nearest_index(m, expiryTime) + 1])

\* rows[:, :k]
Cols(rows, k) == [d \in 1..Len(rows) |-> Slice(rows[d], 0, k)]

\* the arrays of a roll_back call fit together: x1 is a 2-d batch and N0, N1,
\* U1 and H1 have one entry per path
AmcShapesOk(m, x1, U1, H1) ==
    /\ x1.ndim = 2
    /\ Len(x1.v) >= 2
    /\ Len(x1.v[2]) = m.simulation.n_paths
    /\ Len(x1.v[1]) = m.simulation.n_paths
    /\ Len(U1) = m.simulation.n_paths
    /\ Len(H1) = m.simulation.n_paths

\* N0 / N1 * v
Discounted(N0, N1, v) == [p \in 1..Len(v) |-> FMul(FDiv(N0[p], N1[p]), v[p])]

\* the Regression that a roll_back call fits, or fitted = FALSE if it fits none
Fitted(R) == [fitted |-> TRUE, R |-> R]

NotFitted == [fitted |-> FALSE, R |-> Regression(<< << >> >>, << >>, 0)]

\* a variant of lines 77-80 that fits the Regression to all paths
AmcRegressionAllPaths(m, T0, T1, x0, N0, N1, U1, H1) ==
    Fitted(Regression(Controls(m.controls, m.simulation.model, x0.v, T0),
                      Discounted(N0, N1, Maximum(U1, H1)),
                      m.max_polynomial_degree))

\* lines 77-80: the controls and the observations of the training paths, and
\* the Regression fitted to them
AmcRegression(m, T0, T1, x0, N0, N1, U1, H1) ==
    The({ Fitted(Regression(Controls(m.controls, m.simulation.model, Cols(x0.v, kk), T0),
                            Discounted(Slice(N0, 0, kk), Slice(N1, 0, kk),
                                       Maximum(Slice(U1, 0, kk), Slice(H1, 0, kk))),
                            m.max_polynomial_degree))
          : kk \in {m.minSampleIdx} })

\* a variant of the test of line 76 that fits a Regression at T0 = 0 as well
AmcFitAtZero(m, T0, T1, x1, U1, H1) ==
    IF m.minSampleIdx > 0
    THEN The({ AmcRegression(m, T0, T1, x0, numeraire(m.simulation.model, x0.v, T0),
                             numeraire(m.simulation.model, x1.v, T1), U1, H1)
               : x0 \in {AmcStates(m, T0)} })
    ELSE NotFitted

\* AmcSolver.roll_back: the Regression that the call fits (the test of line 76)
AmcFit(m, T0, T1, x1, U1, H1) ==
    IF m.minSampleIdx > 0 /\ T0 > 0
    THEN The({ AmcRegression(m, T0, T1, x0, numeraire(m.simulation.model, x0.v, T0),
                             numeraire(m.simulation.model, x1.v, T1), U1, H1)
               : x0 \in {AmcStates(m, T0)} })
    ELSE NotFitted

\* a variant of lines 84-87 that takes the mean over all paths
AmcResultMeanOfAll(m, T0, x0, V0) ==
    IF T0 = 0
    THEN Returned(Arr1(Zeros(1)), << Mean(V0) >>)
    ELSE Returned(x0, V0)

\* a variant of lines 84-87 without the mean at time zero
AmcResultWithoutMean(m, T0, x0, V0) == Returned(x0, V0)

\* a variant of lines 84-87 whose mean always starts at minSampleIdx
AmcResultFromSplit(m, T0, x0, V0) ==
    IF T0 = 0
    THEN Returned(Arr1(Zeros(1)), << Mean(Slice(V0, m.minSampleIdx, Len(V0))) >>)
    ELSE Returned(x0, V0)

\* the result of both roll_back variants for the values V0 (lines 84-87)
AmcResult(m, T0, x0, V0) ==
    IF T0 = 0
    THEN LET sampleIdx == IF m.minSampleIdx < m.simulation.n_paths
                          THEN m.minSampleIdx ELSE 0
         IN  Returned(Arr1(Zeros(1)), << Mean(Slice(V0, sampleIdx, Len(V0))) >>)
    ELSE Returned(x0, V0)

\* lines 76-83: the values V0 of AmcSolver.roll_back
AmcValue(m, T0, T1, x0, x1, U1, H1) ==
    The({ IF fit.fitted
          THEN RegressionValue(fit.R, Controls(m.controls, m.simulation.model, x0.v, T0))
          ELSE Discounted(numeraire(m.simulation.model, x0.v, T0),
                          numeraire(m.simulation.model, x1.v, T1), Maximum(U1, H1))
          : fit \in {AmcFit(m, T0, T1, x1, U1, H1)} })

\* AmcSolver.roll_back
AmcRollBack(m, T0, T1, x1, U1, H1) ==
    IF x1.ndim # 2 THEN Raised("IndexError")
    ELSE IF ~AmcShapesOk(m, x1, U1, H1) THEN Raised("ValueError")
    ELSE The({ AmcResult(m, T0, x0, V0)
               : x0 \in {AmcStates(m, T0)},
                 V0 \in {AmcValue(m, T0, T1, AmcStates(m, T0), x1, U1, H1)} })

\* AmcSolverOnlyExerciseRegression.roll_back: the Regression that the call fits
\* (lines 100-103)
AmcOnlyExerciseFit(m, T0, T1, x1, U1, H1) ==
    IF m.minSampleIdx > 0 /\ T0 > 0
    THEN The({ Fitted(Regression(Controls(m.controls, m.simulation.model, Cols(x1.v, kk), T1),
                                 Minus(Slice(U1, 0, kk), Slice(H1, 0, kk)),
                                 m.max_polynomial_degree))
               : kk \in {m.minSampleIdx} })
    ELSE NotFitted

\* lines 100-106: the exercise indicator I
AmcOnlyExerciseIndicator(m, T0, T1, x1, U1, H1) ==
    The({ IF fit.fitted
          THEN RegressionValue(fit.R, Controls(m.controls, m.simulation.model, x1.v, T1))
          ELSE Minus(U1, H1)
          : fit \in {AmcOnlyExerciseFit(m, T0, T1, x1, U1, H1)} })

\* a variant of line 107 that carries half of U1 and half of H1 where I is zero
ExerciseOrHoldBlended(I, U1, H1) ==
    [p \in 1..Len(U1) |->
        FAdd( FMul(IF FGt(I[p], 0) THEN FixOne ELSE IF I[p] = 0 THEN FixOne \div 2 ELSE 0,
                   U1[p]),
              FMul(IF FLt(I[p], 0) THEN FixOne ELSE IF I[p] = 0 THEN FixOne \div 2 ELSE 0,
                   H1[p]) )]

\* line 107: (I > 0.0) * U1 + (I <= 0.0) * H1
ExerciseOrHold(I, U1, H1) ==
    [p \in 1..Len(U1) |->
        FAdd( FMul(IF FGt(I[p], 0) THEN FixOne ELSE 0, U1[p]),
              FMul(IF FLe(I[p], 0) THEN FixOne ELSE 0, H1[p]) )]

\* AmcSolverOnlyExerciseRegression.roll_back
AmcOnlyExerciseRollBack(m, T0, T1, x1, U1, H1) ==
    IF x1.ndim # 2 THEN Raised("IndexError")
    ELSE IF ~AmcShapesOk(m, x1, U1, H1) THEN Raised("ValueError")
    ELSE The({ AmcResult(m, T0, x0,
                         Discounted(numeraire(m.simulation.model, x0.v, T0),
                                    numeraire(m.simulation.model, x1.v, T1),
                                    ExerciseOrHold(I, U1, H1)))
               : x0 \in {AmcStates(m, T0)},
                 I  \in {AmcOnlyExerciseIndicator(m, T0, T1, x1, U1, H1)} })

-----------------------------------------------------------------------------
(* Payoffs (src/src/methods/payoffs.py) and np.interp *)

CouponBond(model, observation_time, pay_times, cash_flows) ==
    [ model |-> model, observation_time |-> observation_time,
      pay_times |-> pay_times, cash_flows |-> cash_flows ]

\* CouponBond.at for a 2-d batch x
CouponBondAt(b, x) ==
    The({ [p \in 1..NPoints(x) |->
              FSum([j \in 1..Len(b.cash_flows) |-> FMul(b.cash_flows[j], zb[j][p])])]
          : zb \in { [j \in 1..Len(b.pay_times) |->
                        zero_bond_payoff(b.model, x.v, b.observation_time, b.pay_times[j])] } })

\* np.interp(z, xp, fp) for finite sample points xp
Interp(z, xp, fp) ==
    IF Len(xp) = 1 THEN fp[1]
    ELSE IF HasNaN(xp) THEN NaN
    ELSE IF z <= xp[1] THEN fp[1]
    ELSE IF z >= xp[Len(xp)] THEN fp[Len(xp)]
    ELSE LET j == Segment(xp, z)
         IN  FAdd(fp[j], FMul(FDiv(FSub(fp[j + 1], fp[j]), FSub(xp[j + 1], xp[j])),
                              FSub(z, xp[j])))

-----------------------------------------------------------------------------
(* The rollback method contract: states and roll_back of a method object *)

IsAmc(m) == m.kind \in {"Amc", "AmcOnlyExercise"}

States(m, T) == IF IsAmc(m) THEN AmcStates(m, T) ELSE DensityStates(m, T)

RollBack(m, T0, T1, x1, U1, H1) ==
    IF m.kind = "Amc" THEN AmcRollBack(m, T0, T1, x1, U1, H1)
    ELSE IF m.kind = "AmcOnlyExercise" THEN AmcOnlyExerciseRollBack(m, T0, T1, x1, U1, H1)
    ELSE IF x1.ndim # 1 THEN Raised("ValueError")
    ELSE IF m.kind = "BreakEven" THEN BreakEvenRollBack(m, T0, T1, x1, U1, H1)
    ELSE QuadRollBack(m, T0, T1, x1, U1, H1)

-----------------------------------------------------------------------------
(* The inputs of a pricing run *)

ExerciseTimes == {FInt(t) : t \in 1..MaxTime}

\* the elements of a set of numbers in increasing order
RECURSIVE SortedSeq(_)
SortedSeq(S) ==
    IF S = {} THEN << >>
    ELSE LET least == CHOOSE a \in S : \A b \in S : a <= b
         IN  << least >> \o SortedSeq(S \ {least})

\* the schedules that meet the precondition T_1 < ... < T_n, and the empty one
IncreasingSchedules ==
    {SortedSeq(S) : S \in {R \in SUBSET ExerciseTimes : Cardinality(R) <= MaxLen}}

\* s with the times at i and i + 1 exchanged
Swapped(s, i) == [s EXCEPT ![i] = s[i + 1], ![i + 1] = s[i]]

\* s with the time at i repeated at i + 1
Repeated(s, i) == [s EXCEPT ![i + 1] = s[i]]

\* the schedules of the runs: the increasing ones, and those with two
\* neighbouring times out of order or equal
Schedules ==
    IncreasingSchedules
    \cup {Swapped(s[1], s[2]) : s \in {q \in IncreasingSchedules \X (1..MaxLen) : q[2] < Len(q[1])}}
    \cup {Repeated(s[1], s[2]) : s \in {q \in IncreasingSchedules \X (1..MaxLen) : q[2] < Len(q[1])}}

\* the bond of the k-th exercise: the strike as cash flow -1 at the exercise
\* time and one payment after the last exercise time
Underlying(T) ==
    CouponBond(TheModel, T, << T, FInt(MaxTime + 1) >>, << FNeg(FixOne), 2 * FixOne >>)

\* the payoff list for a schedule: one bond per exercise time, with the last
\* bonds left out (short < 0 of them) or with extra bonds appended
Underlyings(schedule, extra) ==
    [j \in 1..(Len(schedule) + extra) |->
        Underlying(IF j <= Len(schedule) THEN schedule[j] ELSE FInt(MaxTime))]

Seeds == 0..MaxSeed

SimulationTimes == [i \in 1..(MaxTime + 1) |-> FInt(i - 1)]

Simulations == {MonteCarloSimulation(TheModel, SimulationTimes, NPaths, seed) : seed \in Seeds}

SplitRatios == {0, FixOne \div 4, FixOne \div 2, FixOne}

ControlStrategies == {StateVariableControls, CoterminalRateControls(TheModel, FInt(MaxTime + 1))}

QuadratureMethods ==
    { SimpsonIntegration(TheModel), HermiteIntegration(TheModel, 2),
      CubicSplineExactIntegration(TheModel) }

AmcMethods ==
    { AmcSolver(sim, 1, r, c) : sim \in Simulations, r \in SplitRatios, c \in ControlStrategies }
    \cup
    { AmcSolverOnlyExerciseRegression(sim, 1, r, c) :
        sim \in Simulations, r \in SplitRatios, c \in ControlStrategies }

Methods ==
    QuadratureMethods
    \cup {DensityIntegrationWithBreakEven(q) : q \in QuadratureMethods}
    \cup AmcMethods

-----------------------------------------------------------------------------
(* bermudan_option_npv as a state machine: one step per call that it makes *)

VARIABLES
    expiry_times,        \* the argument expiry_times
    underlying_payoffs,  \* the argument underlying_payoffs
    method,              \* the argument method
    pc,                  \* where the run is: "loop", "payoff", "final", "interp", "done", "error"
    k,                   \* the loop variable
    x, U, H,             \* the local variables
    npv,                 \* the value returned
    err,                 \* the exception that ended the run
    calls,               \* history: the calls made on method and on the payoffs
    frame                \* a call made directly on one operation: its arguments, its
                         \* position, its local variables, the calls it makes, its result

vars == << expiry_times, underlying_payoffs, method, pc, k, x, U, H, npv, err, calls, frame >>

\* the variables of a run of bermudan_option_npv
run == << expiry_times, underlying_payoffs, method, pc, k, x, U, H, npv, err, calls >>

\* no direct call is under way
NoFrame == [op |-> "none"]

args == << expiry_times, underlying_payoffs, method >>

\* an entry of the history
Call(fn, kk, T0, T1, x1, U1, H1, ret) ==
    [fn |-> fn, k |-> kk, T0 |-> T0, T1 |-> T1, x1 |-> x1, U1 |-> U1, H1 |-> H1, ret |-> ret]

NoArr == Arr1(<< >>)

Init ==
    /\ expiry_times \in Schedules
    /\ \E extra \in {-1, 0, 1} :
          /\ Len(expiry_times) + extra >= 0
          /\ underlying_payoffs = Underlyings(expiry_times, extra)
    /\ method \in Methods
    /\ pc = IF Len(expiry_times) = 0 THEN "final" ELSE "loop"
    /\ k = Len(expiry_times)
    /\ x = NoArr
    /\ U = << >>
    /\ H = << >>
    /\ npv = NaN
    /\ err = "none"
    /\ calls = << >>
    /\ frame = NoFrame

\* a variant of the first pass that starts from a single zero, np.zeros(1)
FirstStatesScalarH ==
    /\ pc = "loop"
    /\ k = Len(expiry_times)
    /\ \E r \in {States(method, expiry_times[k])} :
           /\ x' = r
           /\ H' = Zeros(1)
           /\ calls' = Append(calls, Call("states", k, expiry_times[k], 0, NoArr, << >>, << >>,
                                          Returned(r, << >>)))
    /\ pc' = "payoff"
    /\ UNCHANGED << frame, args, k, U, npv, err >>

\* line 40-41: the first pass of the loop
FirstStates ==
    /\ pc = "loop"
    /\ k = Len(expiry_times)
    /\ \E r \in {States(method, expiry_times[k])} :
           /\ x' = r
           /\ H' = Zeros(NPoints(r))
           /\ calls' = Append(calls, Call("states", k, expiry_times[k], 0, NoArr, << >>, << >>,
                                          Returned(r, << >>)))
    /\ pc' = "payoff"
    /\ UNCHANGED << frame, args, k, U, npv, err >>

\* a variant of the later passes that makes no roll_back call
LoopRollBackSkipped ==
    /\ pc = "loop"
    /\ k < Len(expiry_times)
    /\ pc' = "payoff"
    /\ UNCHANGED << frame, args, k, x, U, H, npv, err, calls >>

\* line 43: the later passes of the loop
LoopRollBack ==
    /\ pc = "loop"
    /\ k < Len(expiry_times)
    /\ \E r \in {RollBack(method, expiry_times[k], expiry_times[k + 1], x, U, H)} :
           /\ calls' = Append(calls, Call("roll_back", k, expiry_times[k], expiry_times[k + 1],
                                          x, U, H, r))
           /\ IF r.ok
              THEN x' = r.x0 /\ H' = r.H0 /\ pc' = "payoff" /\ err' = err
              ELSE x' = x /\ H' = H /\ pc' = "error" /\ err' = r.err
    /\ UNCHANGED << frame, args, k, U, npv >>

\* a variant of line 44 that always evaluates the payoff of the last exercise
PayoffOfLastExercise ==
    /\ pc = "payoff"
    /\ IF k > Len(underlying_payoffs)
       THEN /\ pc' = "error"
            /\ err' = "IndexError"
            /\ UNCHANGED << k, U, calls >>
       ELSE /\ U' = CouponBondAt(underlying_payoffs[Len(underlying_payoffs)], Reshape2D(x))
            /\ calls' = Append(calls, Call("at", k, 0, 0, Reshape2D(x), << >>, << >>,
                                           Returned(NoArr, U')))
            /\ k' = k - 1
            /\ pc' = IF k - 1 > 0 THEN "loop" ELSE "final"
            /\ err' = err
    /\ UNCHANGED << frame, args, x, H, npv >>

\* line 44: the payoff at the states of this pass, and the next pass
Payoff ==
    /\ pc = "payoff"
    /\ IF k > Len(underlying_payoffs)
       THEN /\ pc' = "error"
            /\ err' = "IndexError"
            /\ UNCHANGED << k, U, calls >>
       ELSE /\ U' = CouponBondAt(underlying_payoffs[k], Reshape2D(x))
            /\ calls' = Append(calls, Call("at", k, 0, 0, Reshape2D(x), << >>, << >>,
                                           Returned(NoArr, U')))
            /\ k' = k - 1
            /\ pc' = IF k - 1 > 0 THEN "loop" ELSE "final"
            /\ err' = err
    /\ UNCHANGED << frame, args, x, H, npv >>

\* a variant of line 45 that returns zero for an empty schedule
FinalRollBackZeroIfEmpty ==
    /\ pc = "final"
    /\ IF Len(expiry_times) = 0
       THEN /\ pc' = "done"
            /\ npv' = 0
            /\ UNCHANGED << x, H, calls, err >>
       ELSE \E r \in {RollBack(method, 0, expiry_times[1], x, U, H)} :
                /\ calls' = Append(calls, Call("roll_back", 0, 0, expiry_times[1], x, U, H, r))
                /\ npv' = npv
                /\ IF r.ok
                   THEN x' = r.x0 /\ H' = r.H0 /\ pc' = "interp" /\ err' = err
                   ELSE x' = x /\ H' = H /\ pc' = "error" /\ err' = r.err
    /\ UNCHANGED << frame, args, k, U >>

\* line 45: the roll-back to time zero
FinalRollBack ==
    /\ pc = "final"
    /\ IF Len(expiry_times) = 0
       THEN /\ pc' = "error"
            /\ err' = "IndexError"
            /\ UNCHANGED << x, H, calls >>
       ELSE \E r \in {RollBack(method, 0, expiry_times[1], x, U, H)} :
                /\ calls' = Append(calls, Call("roll_back", 0, 0, expiry_times[1], x, U, H, r))
                /\ IF r.ok
                   THEN x' = r.x0 /\ H' = r.H0 /\ pc' = "interp" /\ err' = err
                   ELSE x' = x /\ H' = H /\ pc' = "error" /\ err' = r.err
    /\ UNCHANGED << frame, args, k, U, npv >>

\* lines 46-49: the interpolation at the initial state 0, and the return
Return ==
    /\ pc = "interp"
    /\ \E xp \in {IF x.ndim > 1 THEN x.v[1] ELSE x.v} :
           IF Len(xp) # Len(H) \/ Len(xp) = 0
           THEN pc' = "error" /\ err' = "ValueError" /\ npv' = npv
           ELSE pc' = "done" /\ err' = err /\ npv' = Interp(0, xp, H)
    /\ UNCHANGED << frame, args, k, x, U, H, calls >>

Next == FirstStates \/ LoopRollBack \/ Payoff \/ FinalRollBack \/ Return

Spec == Init /\ [][Next]_vars

-----------------------------------------------------------------------------
(* A roll_back call made directly on an AMC solver, as in tests/test_methods.py (line 80) *)

\* no run of bermudan_option_npv is under way
NoRun ==
    /\ expiry_times = << >>
    /\ underlying_payoffs = << >>
    /\ pc = "idle"
    /\ k = 0
    /\ x = NoArr
    /\ U = << >>
    /\ H = << >>
    /\ npv = NaN
    /\ err = "none"
    /\ calls = << >>

\* values on the paths: -1, 0 or 1 on each path
PathValues == {[p \in 1..NPaths |-> FInt(((a * p + b) % 3) - 1)] : a \in 0..2, b \in 0..2}

\* lines 77 and 100: the control matrix C of the training paths that the call
\* passes to Regression, and << >> if the call fits no Regression
AmcTrainingControls(m, T0, T1, x1) ==
    IF ~(m.minSampleIdx > 0 /\ T0 > 0) THEN << >>
    ELSE IF m.kind = "Amc"
    THEN Controls(m.controls, m.simulation.model,
                  Cols(AmcStates(m, T0).v, m.minSampleIdx), T0)
    ELSE Controls(m.controls, m.simulation.model, Cols(x1.v, m.minSampleIdx), T1)

\* the solver classes
AmcVariants == {"Amc", "AmcOnlyExercise"}

\* variant(simulation, max_polynomial_degree, split_ratio, controls)
NewAmcSolver(variant, simulation, max_polynomial_degree, split_ratio, controls) ==
    IF variant = "Amc"
    THEN AmcSolver(simulation, max_polynomial_degree, split_ratio, controls)
    ELSE AmcSolverOnlyExerciseRegression(simulation, max_polynomial_degree, split_ratio, controls)

\* method has been constructed with the argument controls, and the call
\* method.roll_back(T0, T1, method.states(T1), U1, H1) is about to be made
InitAmcCall ==
    /\ NoRun
    /\ \E variant \in AmcVariants, sim \in Simulations, r \in SplitRatios,
          c \in ControlStrategies, t \in 0..(MaxTime - 1),
          U1 \in PathValues, H1 \in PathValues :
          /\ method = NewAmcSolver(variant, sim, 1, r, c)
          /\ frame = [ op |-> "roll_back", pc |-> "call", fn |-> "roll_back",
                       split_ratio |-> r, controls |-> c, C |-> << >>, R |-> NotFitted,
                       T0 |-> FInt(t), T1 |-> FInt(t + 1),
                       x1 |-> AmcStates(method, FInt(t + 1)),
                       U1 |-> U1, H1 |-> H1, ret |-> Raised("none") ]

\* the call is made and returns or raises; C records the control matrix that
\* it has passed to Regression, and R the Regression object that it has created
AmcCall ==
    /\ frame.op = "roll_back"
    /\ frame.pc = "call"
    /\ frame' = [frame EXCEPT !.pc = "done",
                              !.C = AmcTrainingControls(method, frame.T0, frame.T1, frame.x1),
                              !.R = IF method.kind = "Amc"
                                    THEN AmcFit(method, frame.T0, frame.T1,
                                                frame.x1, frame.U1, frame.H1)
                                    ELSE AmcOnlyExerciseFit(method, frame.T0, frame.T1,
                                                            frame.x1, frame.U1, frame.H1),
                              !.ret = RollBack(method, frame.T0, frame.T1,
                                               frame.x1, frame.U1, frame.H1)]
    /\ UNCHANGED run

NextAmcCall == AmcCall

SpecAmcCall == InitAmcCall /\ [][NextAmcCall]_vars

-----------------------------------------------------------------------------
(* DensityIntegrationWithBreakEven.roll_back, one step per call that it makes *)
(* of the roll_back of the method that it wraps                               *)

\* the values of U1 on the grid: -1, 0 or 1 at each point
GridValues == [1..NGrid -> {FNeg(FixOne), 0, FixOne}]

\* the values of H1 on the grid: the same value at each point
FlatValues == {[i \in 1..NGrid |-> v] : v \in {FNeg(FixOne), 0, FixOne}}

\* method decorates a quadrature method, and the call
\* method.roll_back(T0, T1, method.states(T1), U1, H1) is about to be made
InitBreakEven ==
    /\ NoRun
    /\ method \in {DensityIntegrationWithBreakEven(q) : q \in QuadratureMethods}
    /\ \E t \in 0..(MaxTime - 1), U1 \in GridValues, H1 \in FlatValues :
          frame = [ op |-> "break_even", pc |-> "roots", fn |-> "roll_back",
                    T0 |-> FInt(t), T1 |-> FInt(t + 1),
                    x1 |-> DensityStates(method, FInt(t + 1)),
                    U1 |-> U1, H1 |-> H1,
                    sp |-> BreakEvenSplit(Arr1(<< >>), << >>, << >>),
                    inner |-> << >>, ret |-> Raised("none") ]

\* the call self.method.roll_back(T0, T1, x1, U1, H1) with its result
WrappedCall(T0, T1, x1, U1, H1) ==
    [ T0 |-> T0, T1 |-> T1, x1 |-> x1, U1 |-> U1, H1 |-> H1,
      ret |-> QuadRollBack(method.method, T0, T1, x1, U1, H1) ]

\* lines 41-57 but for the calls: the roots of the spline of U1 - H1, and the
\* two sub-grids if there is one
BreakEvenRoots ==
    /\ frame.op = "break_even"
    /\ frame.pc = "roots"
    /\ frame' =
         IF \/ ~Broadcastable(frame.U1, frame.H1)
            \/ ~SplineOk(frame.x1.v, Minus(frame.U1, frame.H1))
         THEN [frame EXCEPT !.pc = "done", !.ret = Raised("ValueError")]
         ELSE The({ IF sp.roots = << >> THEN [frame EXCEPT !.pc = "delegate", !.sp = sp]
                    ELSE IF ~SplineOk(frame.x1.v, frame.U1)
                    THEN [frame EXCEPT !.pc = "done", !.ret = Raised("ValueError")]
                    ELSE [frame EXCEPT !.pc = "lower", !.sp = sp]
                    : sp \in {BreakEvenSplit(frame.x1, frame.U1, frame.H1)} })
    /\ UNCHANGED run

\* a variant of line 43 that passes the exercise value max(U1, H1) on
BreakEvenDelegateMaximum ==
    /\ frame.op = "break_even"
    /\ frame.pc = "delegate"
    /\ \E c \in {WrappedCall(frame.T0, frame.T1, frame.x1,
                             Maximum(frame.U1, frame.H1), frame.H1)} :
          frame' = [frame EXCEPT !.pc = "done", !.inner = Append(@, c), !.ret = c.ret]
    /\ UNCHANGED run

\* line 43: no break-even state, the call is passed on
BreakEvenDelegate ==
    /\ frame.op = "break_even"
    /\ frame.pc = "delegate"
    /\ \E c \in {WrappedCall(frame.T0, frame.T1, frame.x1, frame.U1, frame.H1)} :
          frame' = [frame EXCEPT !.pc = "done", !.inner = Append(@, c), !.ret = c.ret]
    /\ UNCHANGED run

\* line 52: the call for the lower sub-grid; an exception that it raises ends
\* the roll_back
BreakEvenLower ==
    /\ frame.op = "break_even"
    /\ frame.pc = "lower"
    /\ \E c \in {WrappedCall(frame.T0, frame.T1, Arr1(frame.sp.lX1),
                             frame.sp.lU1, frame.sp.lH1)} :
          frame' = IF c.ret.ok
                   THEN [frame EXCEPT !.pc = "upper", !.inner = Append(@, c)]
                   ELSE [frame EXCEPT !.pc = "done", !.inner = Append(@, c), !.ret = c.ret]
    /\ UNCHANGED run

\* lines 59-61: the call for the upper sub-grid, and the sum of the two results
BreakEvenUpper ==
    /\ frame.op = "break_even"
    /\ frame.pc = "upper"
    /\ \E c \in {WrappedCall(frame.T0, frame.T1, Arr1(frame.sp.uX1),
                             frame.sp.uU1, frame.sp.uH1)} :
          frame' = [frame EXCEPT !.pc = "done", !.inner = Append(@, c),
                                 !.ret = IF c.ret.ok
                                         THEN Returned(c.ret.x0,
                                                       Plus(frame.inner[1].ret.H0, c.ret.H0))
                                         ELSE c.ret]
    /\ UNCHANGED run

NextBreakEven ==
    \/ BreakEvenRoots
    \/ BreakEvenDelegate
    \/ BreakEvenLower
    \/ BreakEvenUpper

SpecBreakEven == InitBreakEven /\ [][NextBreakEven]_vars

-----------------------------------------------------------------------------
(* A Regression that is constructed and then evaluated *)

\* a control matrix with n rows and one column per path, with the entries -1, 0, 1
ControlMatrices(n) ==
    {[j \in 1..n |-> [p \in 1..NPaths |-> FInt(((a * p + j) % 3) - 1)]] : a \in 0..2}

\* Regression(controls, observations, max_polynomial_degree) is about to be
\* constructed, and then to be evaluated at the control matrix at
InitRegression ==
    /\ NoRun
    /\ method = [kind |-> "none"]
    /\ \E n \in 1..MaxVars, d \in 0..MaxDegree, observations \in PathValues :
          \E controls \in ControlMatrices(n), at \in ControlMatrices(n) :
              frame = [ op |-> "regression", pc |-> "init",
                        controls |-> controls, observations |-> observations,
                        max_polynomial_degree |-> d, at |-> at,
                        R |-> Regression(<< << >> >>, << >>, 0), value |-> << >> ]

\* R = Regression(controls, observations, max_polynomial_degree)
RegressionInit ==
    /\ frame.op = "regression"
    /\ frame.pc = "init"
    /\ frame' = [frame EXCEPT !.pc = "fitted",
                              !.R = Regression(frame.controls, frame.observations,
                                               frame.max_polynomial_degree)]
    /\ UNCHANGED run

\* R.value(at)
RegressionEvaluate ==
    /\ frame.op = "regression"
    /\ frame.pc = "fitted"
    /\ frame' = [frame EXCEPT !.pc = "done", !.value = RegressionValue(frame.R, frame.at)]
    /\ UNCHANGED run

NextRegression ==
    \/ RegressionInit
    \/ RegressionEvaluate

SpecRegression == InitRegression /\ [][NextRegression]_vars

-----------------------------------------------------------------------------
(* theta_step and solve_tridiagonalsystem (src/src/methods/theta_method.py) *)

\* diags([array_L, array_C, array_U], [-1, 0, 1])
diags(array_L, array_C, array_U) == [L |-> array_L, C |-> array_C, U |-> array_U]

\* I + coef * M for a tridiagonal M
IdentityPlus(coef, M) ==
    [ L |-> [i \in 1..Len(M.L) |-> FMul(coef, M.L[i])],
      C |-> [i \in 1..Len(M.C) |-> FAdd(FixOne, FMul(coef, M.C[i]))],
      U |-> [i \in 1..Len(M.U) |-> FMul(coef, M.U[i])] ]

\* A.dot(r) for a tridiagonal A
TriDot(A, r) ==
    [i \in 1..Len(A.C) |->
        FAdd(FAdd(IF i > 1 THEN FMul(A.L[i - 1], r[i - 1]) ELSE 0,
                  FMul(A.C[i], r[i])),
             IF i < Len(A.C) THEN FMul(A.U[i], r[i + 1]) ELSE 0)]

\* lines 13-15: the in-place LU decomposition from row i (1-based) on; a and
\* b are the lower and the main diagonal so far
RECURSIVE Eliminate(_, _, _, _)
Eliminate(a, b, c, i) ==
    IF i > Len(b) THEN [a |-> a, b |-> b]
    ELSE The({ Eliminate(a1, [b EXCEPT ![i] = FSub(b[i], FMul(c[i - 1], a1[i - 1]))], c, i + 1)
               : a1 \in {[a EXCEPT ![i - 1] = FDiv(a[i - 1], b[i - 1])]} })

\* lines 17-20: forward substitution from row i on; z holds the rows before i
RECURSIVE Forward(_, _, _, _)
Forward(a, yy, z, i) ==
    IF i > Len(yy) THEN z
    ELSE Forward(a, yy, Append(z, FSub(yy[i], FMul(a[i - 1], z[i - 1]))), i + 1)

\* lines 23-24: backward substitution for the rows i-1, ..., 1; yy (y) holds the
\* solution from row i on
RECURSIVE Backward(_, _, _, _, _)
Backward(b, c, z, yy, i) ==
    IF i <= 1 THEN yy
    ELSE Backward(b, c, z,
                  [yy EXCEPT ![i - 1] = FDiv(FSub(z[i - 1], FMul(c[i - 1], yy[i])), b[i - 1])],
                  i - 1)

\* solve_tridiagonalsystem(diag_A, y): the array y after the call
solve_tridiagonalsystem(diag_A, yy) ==
    The({ The({ Backward(lu.b, diag_A.U, z,
                         [yy EXCEPT ![Len(yy)] = FDiv(z[Len(yy)], lu.b[Len(yy)])], Len(yy))
                : z \in {Forward(lu.a, yy, << yy[1] >>, 2)} })
          : lu \in {Eliminate(diag_A.L, diag_A.C, diag_A.U, 2)} })

\* the entries of the diagonals, the entries of array_RHS, the step sizes and
\* the values of theta
OffDiagonal == {FNeg(FixOne), 0, FixOne}

Diagonal == {FNeg(FixOne), FixOne, 2 * FixOne}

Rhs == {FNeg(FixOne), FixOne}

\* the arrays array_RHS of n entries: one value in every row, or one value
\* with alternating signs
RhsArrays(n) ==
    {[i \in 1..n |-> r] : r \in Rhs} \cup {[i \in 1..n |-> IF i % 2 = 1 THEN r ELSE FNeg(r)] : r \in Rhs}

\* the local arrays of solve_tridiagonalsystem: the copies a, b, c of the
\* diagonals, z, the loop variable i, and the passes made so far
NoSolve == [a |-> << >>, b |-> << >>, c |-> << >>, z |-> << >>, i |-> 0, trace |-> << >>]

StepSizes == {FixOne \div 2, FixOne}

Thetas == {0, FixOne \div 2, FixOne}

\* the call theta_step(array_L, array_C, array_U, array_RHS, stepSize, theta)
\* is about to be made; solves counts the calls of solve_tridiagonalsystem
InitThetaStep ==
    /\ NoRun
    /\ method = [kind |-> "none"]
    /\ \E n \in 1..MaxSize, l \in OffDiagonal, u \in OffDiagonal,
          stepSize \in StepSizes, theta \in Thetas :
          \E array_C \in [1..n -> Diagonal], array_RHS \in RhsArrays(n) :
              frame = [ op |-> "theta_step", pc |-> "start",
                        array_L |-> [i \in 1..(n - 1) |-> l], array_C |-> array_C,
                        array_U |-> [i \in 1..(n - 1) |-> u], array_RHS |-> array_RHS,
                        stepSize |-> stepSize, theta |-> theta,
                        M |-> diags(<< >>, << >>, << >>), b |-> << >>,
                        A |-> diags(<< >>, << >>, << >>), rhs |-> << >>, sol |-> NoSolve,
                        solves |-> 0, err |-> "none", ret |-> << >> ]

\* lines 33-35: M, I and b = (I - (stepSize*(1.0-theta))*M).dot(array_RHS)
ThetaRhs ==
    /\ frame.op = "theta_step"
    /\ frame.pc = "start"
    /\ \E M \in {diags(frame.array_L, frame.array_C, frame.array_U)} :
          frame' = [frame EXCEPT
                      !.pc = "test",
                      !.M = M,
                      !.b = TriDot(IdentityPlus(FNeg(FMul(frame.stepSize,
                                                          FSub(FixOne, frame.theta))), M),
                                   frame.array_RHS)]
    /\ UNCHANGED run

\* a variant of lines 36-37 that solves the system with A = I
ThetaExplicitSolved ==
    /\ frame.op = "theta_step"
    /\ frame.pc = "test"
    /\ frame.theta = 0
    /\ frame' = [frame EXCEPT
                   !.pc = "done",
                   !.solves = @ + 1,
                   !.ret = solve_tridiagonalsystem(
                               IdentityPlus(FMul(frame.stepSize, frame.theta), frame.M),
                               frame.b)]
    /\ UNCHANGED run

\* lines 36-37: explicit Euler, b is returned
ThetaExplicit ==
    /\ frame.op = "theta_step"
    /\ frame.pc = "test"
    /\ frame.theta = 0
    /\ frame' = [frame EXCEPT !.pc = "done", !.ret = frame.b]
    /\ UNCHANGED run

\* where a loop of solve_tridiagonalsystem has ended, the statements up to
\* the next loop pass: lines 17-18 after the decomposition, line 22 after the
\* forward substitution, and the returns of lines 25 and 40 after the
\* backward substitution.  y is the array b of theta_step itself.
RECURSIVE SolveAdvance(_)
SolveAdvance(f) ==
    IF f.pc = "lu" /\ f.sol.i > Len(f.sol.b) - 1
    THEN SolveAdvance([f EXCEPT !.pc = "forward",
                                !.sol.z = [Zeros(Len(f.sol.b)) EXCEPT ![1] = f.b[1]],
                                !.sol.i = 1])
    ELSE IF f.pc = "forward" /\ f.sol.i > Len(f.sol.b) - 1
    THEN SolveAdvance([f EXCEPT !.pc = "backward",
                                !.b[Len(f.b)] = FDiv(f.sol.z[Len(f.b)], f.sol.b[Len(f.b)]),
                                !.sol.i = Len(f.sol.b) - 1])
    ELSE IF f.pc = "backward" /\ f.sol.i < 1
    THEN [f EXCEPT !.pc = "done", !.ret = f.b]
    ELSE f

\* lines 38-39 and 9-11: A = I + (stepSize*theta)*M, the call
\* solve_tridiagonalsystem(A, b), and the copies of the three diagonals
ThetaImplicit ==
    /\ frame.op = "theta_step"
    /\ frame.pc = "test"
    /\ frame.theta # 0
    /\ \E A \in {IdentityPlus(FMul(frame.stepSize, frame.theta), frame.M)} :
          frame' = SolveAdvance([frame EXCEPT
                                   !.pc = "lu",
                                   !.solves = @ + 1,
                                   !.A = A,
                                   !.rhs = frame.b,
                                   !.sol = [NoSolve EXCEPT !.a = A.L, !.b = A.C, !.c = A.U,
                                                           !.i = 1]])
    /\ UNCHANGED run

\* a variant of lines 13-15 that checks the pivot and raises if it is zero
SolveEliminateChecked ==
    /\ frame.op = "theta_step"
    /\ frame.pc = "lu"
    /\ \E i \in {frame.sol.i} :
          IF frame.sol.b[i] = 0
          THEN frame' = [frame EXCEPT !.pc = "done", !.err = "ZeroDivisionError"]
          ELSE \E a1 \in {FDiv(frame.sol.a[i], frame.sol.b[i])} :
                  frame' = SolveAdvance([frame EXCEPT
                              !.sol.a[i] = a1,
                              !.sol.b[i + 1] = FSub(@, FMul(frame.sol.c[i], a1)),
                              !.sol.trace = Append(@, << "lu", i >>),
                              !.sol.i = i + 1])
    /\ UNCHANGED run

\* lines 13-15: one pass of the in-place LU decomposition, a[i-1] /= b[i-1]
\* and b[i] -= c[i-1]*a[i-1]; a division by zero gives a non-finite number
SolveEliminate ==
    /\ frame.op = "theta_step"
    /\ frame.pc = "lu"
    /\ \E i \in {frame.sol.i} :
          \E a1 \in {FDiv(frame.sol.a[i], frame.sol.b[i])} :
             frame' = SolveAdvance([frame EXCEPT
                         !.sol.a[i] = a1,
                         !.sol.b[i + 1] = FSub(@, FMul(frame.sol.c[i], a1)),
                         !.sol.trace = Append(@, << "lu", i >>),
                         !.sol.i = i + 1])
    /\ UNCHANGED run

\* lines 19-20: one pass of the forward substitution,
\* z[i] = y[i] - a[i-1]*z[i-1]
SolveForward ==
    /\ frame.op = "theta_step"
    /\ frame.pc = "forward"
    /\ \E i \in {frame.sol.i} :
          frame' = SolveAdvance([frame EXCEPT
                      !.sol.z[i + 1] = FSub(frame.b[i + 1], FMul(frame.sol.a[i], frame.sol.z[i])),
                      !.sol.trace = Append(@, << "forward", i >>),
                      !.sol.i = i + 1])
    /\ UNCHANGED run

\* a variant of lines 23-24 that leaves the term c[i-1]*y[i] out
SolveBackwardDiagonal ==
    /\ frame.op = "theta_step"
    /\ frame.pc = "backward"
    /\ \E i \in {frame.sol.i} :
          frame' = SolveAdvance([frame EXCEPT
                      !.b[i] = FDiv(frame.sol.z[i], frame.sol.b[i]),
                      !.sol.trace = Append(@, << "backward", i >>),
                      !.sol.i = i - 1])
    /\ UNCHANGED run

\* lines 23-24: one pass of the backward substitution, which overwrites y,
\* y[i-1] = (z[i-1] - c[i-1]*y[i])/b[i-1]
SolveBackward ==
    /\ frame.op = "theta_step"
    /\ frame.pc = "backward"
    /\ \E i \in {frame.sol.i} :
          frame' = SolveAdvance([frame EXCEPT
                      !.b[i] = FDiv(FSub(frame.sol.z[i], FMul(frame.sol.c[i], frame.b[i + 1])),
                                    frame.sol.b[i]),
                      !.sol.trace = Append(@, << "backward", i >>),
                      !.sol.i = i - 1])
    /\ UNCHANGED run

NextThetaStep ==
    \/ ThetaRhs
    \/ ThetaExplicit
    \/ ThetaImplicit
    \/ SolveEliminate
    \/ SolveForward
    \/ SolveBackward

SpecThetaStep == InitThetaStep /\ [][NextThetaStep]_vars

-----------------------------------------------------------------------------
(* The bracketed root searches: HullWhiteModel.coupon_bond_option,           *)
(* black_implied_vol and bachelier_implied_vol (src/src/helpers.py) and      *)
(* SabrModel.calibrate_atm (src/src/sabr_model.py)                           *)

\* the decimal constant num / den of the source, rounded up to the resolution
Decimal(num, den) == (num * FixOne + den - 1) \div den

\* the result of a call that returns a number, or raises
Value(v) == [ok |-> TRUE, value |-> v, err |-> "none"]

Failed(e) == [ok |-> FALSE, value |-> NaN, err |-> e]

\* helpers.black_normalised; callOrPut is 1 or -1
black_normalised(moneyness, stdDev, callOrPut) ==
    The({ FScale(callOrPut,
                 FSub(FMul(moneyness, NormCdf(FScale(callOrPut, d1))),
                      NormCdf(FScale(callOrPut, FSub(d1, stdDev)))))
          : d1 \in {FAdd(FDiv(Log(moneyness), stdDev), FOver(stdDev, 2))} })

\* helpers.black; nu < 1.0e-12 is nu <= 0 at the resolution
black(strike, forward, vola, T, callOrPut) ==
    The({ IF FLe(vol, 0)
          THEN FMax(FScale(callOrPut, FSub(forward, strike)), 0)
          ELSE FMul(strike, black_normalised(FDiv(forward, strike), vol, callOrPut))
          : vol \in {FMul(vola, Sqrt(T))} })

\* helpers.bachelier_normalised
bachelier_normalised(moneyness, stdDev, callOrPut) ==
    The({ FMul(stdDev, FAdd(FMul(h, NormCdf(h)), NormPdf(h)))
          : h \in {FDiv(FScale(callOrPut, moneyness), stdDev)} })

\* helpers.bachelier
bachelier(strike, forward, vola, T, callOrPut) ==
    bachelier_normalised(FSub(forward, strike), FMul(vola, Sqrt(T)), callOrPut)

\* HullWhiteModel.zero_bond_option
zero_bond_option(hw, expiry_time, maturityTime, strikePrice, call_or_put) ==
    The({ FMul(P0, black(strikePrice, FDiv(discount(hw.rate, maturityTime), P0),
                         Sqrt(FMul(FMul(g, g), y(hw, expiry_time))), FixOne, call_or_put))
          : g \in {G(hw, expiry_time, maturityTime)},
            P0 \in {discount(hw.rate, expiry_time)} })

\* SabrModel.__init__; beta is 0 or 1 and is kept as an integer
SabrModel(forward, time_to_expiry, alpha, beta, volvol, rho) ==
    [ forward |-> forward, time_to_expiry |-> time_to_expiry, alpha |-> alpha,
      beta |-> beta, nu |-> volvol, rho |-> rho ]

\* SabrModel.local_vol_C
local_vol_C(sabr, rate) == FPow(FMax(rate, Decimal(1, 10000000)), sabr.beta)

\* SabrModel.s_average
s_average(strike, forward) == FOver(FAdd(strike, forward), 2)

\* SabrModel.zeta
zeta(sabr, strike, forward) ==
    FDiv(FMul(FDiv(sabr.nu, sabr.alpha),
              FSub(FPow(forward, 1 - sabr.beta), FPow(strike, 1 - sabr.beta))),
         FInt(1 - sabr.beta))

\* SabrModel.chi
chi(sabr, z) ==
    Log(FDiv(FAdd(FSub(Sqrt(FAdd(FSub(FixOne, FScale(2, FMul(sabr.rho, z))), FMul(z, z))),
                       sabr.rho), z),
             FSub(FixOne, sabr.rho)))

\* SabrModel.normal_volatility
normal_volatility(sabr, strike) ==
    The({ The({ FMul(IF FGt(FAbs(FSub(strike, sabr.forward)), 0)
                     THEN FDiv(FMul(sabr.nu, FSub(sabr.forward, strike)),
                               chi(sabr, zeta(sabr, strike, sabr.forward)))
                     ELSE FMul(sabr.alpha, CSav),
                     FAdd(FixOne, FMul(I1, sabr.time_to_expiry)))
                : I1 \in { FAdd(FAdd(FMul(FMul(FOver(FSub(FScale(2, gamma2),
                                                          FMul(gamma1, gamma1)), 24),
                                               FMul(sabr.alpha, sabr.alpha)),
                                          FMul(CSav, CSav)),
                                     FMul(FOver(FMul(FMul(FMul(sabr.rho, sabr.nu), sabr.alpha),
                                                     gamma1), 4), CSav)),
                                FMul(FOver(FSub(FInt(2), FScale(3, FMul(sabr.rho, sabr.rho))),
                                           24),
                                     FMul(sabr.nu, sabr.nu))) } })
          : CSav   \in {local_vol_C(sabr, s_average(strike, sabr.forward))},
            gamma1 \in {FDiv(FInt(sabr.beta), s_average(strike, sabr.forward))},
            gamma2 \in {FDiv(FInt(sabr.beta * (sabr.beta - 1)),
                             FMul(s_average(strike, sabr.forward),
                                  s_average(strike, sabr.forward)))} })

\* the function objective of the call c at z
Objective(c, z) ==
    IF c.fn = "coupon_bond_option"
    THEN FSub(FSum([i \in 1..Len(c.pay_times) |->
                       FMul(c.cash_flows[i],
                            zero_bond(c.model, c.expiry_time, z, c.pay_times[i]))]),
              c.strike_price)
    ELSE IF c.fn = "black_implied_vol"
    THEN FSub(black(c.strike, c.forward, z, c.T, c.callOrPut), c.price)
    ELSE IF c.fn = "bachelier_implied_vol"
    THEN FSub(bachelier(c.strike, c.forward, z, c.T, c.callOrPut), c.price)
    ELSE FSub(normal_volatility([c.model EXCEPT !.alpha = z], c.model.forward), c.sigma_atm)

\* the iteration of brentq on a bracket lo < hi at whose ends the objective
\* differs in sign (it is > 0 at lo iff above): a stand-in by bisection down
\* to the resolution
RECURSIVE Bisect(_, _, _, _)
Bisect(c, lo, hi, above) ==
    IF hi - lo <= 1 THEN lo
    ELSE The({ IF fm = 0 THEN (lo + hi) \div 2
               ELSE IF FGt(fm, 0) = above THEN Bisect(c, (lo + hi) \div 2, hi, above)
               ELSE Bisect(c, lo, (lo + hi) \div 2, above)
               : fm \in {Objective(c, (lo + hi) \div 2)} })

\* scipy.optimize.brentq(objective, a, b, xtol=1.0e-8): an end of the bracket
\* if the objective is zero there, ValueError ("f(a) and f(b) must have
\* different signs") if it has the same sign at both ends, else a root
brentq(c, a, b) ==
    The({ IF IsNaN(fa) \/ IsNaN(fb) THEN Failed("ValueError")
          ELSE IF fa = 0 THEN Value(a)
          ELSE IF fb = 0 THEN Value(b)
          ELSE IF (fa > 0) = (fb > 0) THEN Failed("ValueError")
          ELSE Value(Bisect(c, a, b, fa > 0))
          : fa \in {Objective(c, a)}, fb \in {Objective(c, b)} })

\* the arguments of the calls
Prices == {0, Decimal(1, 50), FixOne \div 8, FixOne \div 2, 2 * FixOne}

Strikes == {FixOne \div 2, FixOne}

Forwards == {FixOne \div 2, FixOne, 2 * FixOne}

Expiries == {FixOne, 4 * FixOne}

CashFlows == {<< FixOne, FixOne >>, << FNeg(FixOne), 2 * FixOne >>}

StrikePrices == {FNeg(FixOne), 0, FixOne, 4 * FixOne}

SabrModels ==
    { SabrModel(forward, T, FixOne, beta, volvol, rho) :
        forward \in Strikes, T \in Expiries, beta \in {0, 1},
        volvol \in {0, FixOne, 4 * FixOne}, rho \in {FNeg(FixOne \div 2), 0, FixOne \div 2} }

\* one of the four calls is about to be made
InitRootSearch ==
    /\ NoRun
    /\ method = [kind |-> "none"]
    /\ \/ \E t \in 1..MaxTime, cash_flows \in CashFlows, strike_price \in StrikePrices,
            call_or_put \in {1, -1} :
            frame = [ op |-> "root", pc |-> "call", fn |-> "coupon_bond_option",
                      model |-> TheModel, expiry_time |-> FInt(t),
                      pay_times |-> << FInt(t), FInt(t + 1) >>, cash_flows |-> cash_flows,
                      strike_price |-> strike_price, call_or_put |-> call_or_put,
                      ret |-> Failed("none") ]
       \/ \E fn \in {"black_implied_vol", "bachelier_implied_vol"}, price \in Prices,
            strike \in Strikes, forward \in Forwards, T \in Expiries, callOrPut \in {1, -1} :
            frame = [ op |-> "root", pc |-> "call", fn |-> fn,
                      price |-> price, strike |-> strike, forward |-> forward, T |-> T,
                      callOrPut |-> callOrPut, ret |-> Failed("none") ]
       \/ \E sabr \in SabrModels, sigma_atm \in Strikes :
            frame = [ op |-> "root", pc |-> "call", fn |-> "calibrate_atm",
                      model |-> sabr, sigma_atm |-> sigma_atm, ret |-> Failed("none") ]

\* HullWhiteModel.coupon_bond_option
CouponBondOption ==
    /\ frame.op = "root"
    /\ frame.pc = "call"
    /\ frame.fn = "coupon_bond_option"
    /\ \E x_star \in {brentq(frame, FNeg(FixOne), FixOne)} :
          frame' = [frame EXCEPT
                      !.pc = "done",
                      !.ret = IF ~x_star.ok THEN x_star
                              ELSE Value(FSum([i \in 1..Len(frame.pay_times) |->
                                     FMul(frame.cash_flows[i],
                                          zero_bond_option(frame.model, frame.expiry_time,
                                              frame.pay_times[i],
                                              zero_bond(frame.model, frame.expiry_time,
                                                        x_star.value, frame.pay_times[i]),
                                              frame.call_or_put))]))]
    /\ UNCHANGED run

\* helpers.black_implied_vol
BlackImpliedVol ==
    /\ frame.op = "root"
    /\ frame.pc = "call"
    /\ frame.fn = "black_implied_vol"
    /\ frame' = [frame EXCEPT !.pc = "done",
                              !.ret = brentq(frame, Decimal(1, 100), FixOne)]
    /\ UNCHANGED run

\* helpers.bachelier_implied_vol
BachelierImpliedVol ==
    /\ frame.op = "root"
    /\ frame.pc = "call"
    /\ frame.fn = "bachelier_implied_vol"
    /\ frame' = [frame EXCEPT !.pc = "done",
                              !.ret = brentq(frame, Decimal(1, 10000), Decimal(1, 10))]
    /\ UNCHANGED run

\* SabrModel.calibrate_atm: objective assigns self.alpha at every evaluation,
\* the last one before a ValueError of brentq is at the upper end of the bracket
CalibrateAtm ==
    /\ frame.op = "root"
    /\ frame.pc = "call"
    /\ frame.fn = "calibrate_atm"
    /\ \E alpha0 \in {FDiv(frame.sigma_atm, local_vol_C(frame.model, frame.model.forward))} :
          \E found \in {brentq(frame, FOver(alpha0, 2), FScale(2, alpha0))} :
              frame' = [frame EXCEPT !.pc = "done",
                                     !.model.alpha = IF found.ok THEN found.value
                                                     ELSE FScale(2, alpha0),
                                     !.ret = found]
    /\ UNCHANGED run

NextRootSearch ==
    \/ CouponBondOption
    \/ BlackImpliedVol
    \/ BachelierImpliedVol
    \/ CalibrateAtm

SpecRootSearch == InitRootSearch /\ [][NextRootSearch]_vars

-----------------------------------------------------------------------------
(* MonteCarloSimulation.__init__ step by step, for two simulations that are  *)
(* constructed one after the other, and numpy's module-level generator       *)

\* the state of a generator: its seed and the number of draws made from it
Generator(seed, pos) == [seed |-> seed, pos |-> pos]

\* the module-level generator after np.random.seed(0) and after a draw from it
GlobalStates == {Generator(0, pos) : pos \in 0..1}

\* the arguments times and n_paths
TimeGrids == {[i \in 1..n |-> FInt(i - 1)] : n \in 1..(MaxTime + 1)}

PathCounts == {NPaths}

\* no simulation under construction
NoSimulation ==
    [ model |-> TheModel, times |-> << >>, n_paths |-> 0, seed |-> 0,
      dW |-> << >>, X |-> << >>, i |-> 0,
      evolves |-> << >>, written |-> << >>, draws |-> << >>, was |-> Generator(0, 0) ]

\* no simulation has been constructed and none is under construction
InitSimulation ==
    /\ NoRun
    /\ method = [kind |-> "none"]
    /\ \E g \in GlobalStates :
          frame = [ op |-> "simulate", pc |-> "idle", global |-> g,
                    sims |-> << >>, sim |-> NoSimulation ]

\* other code draws from, or seeds, the module-level generator np.random
GlobalUse ==
    /\ frame.op = "simulate"
    /\ frame.pc = "idle"
    /\ \E g \in GlobalStates \ {frame.global} : frame' = [frame EXCEPT !.global = g]
    /\ UNCHANGED run

\* lines 11-14: MonteCarloSimulation(model, times, n_paths, seed) is called;
\* was keeps the state of the module-level generator at the call
SimNew ==
    /\ frame.op = "simulate"
    /\ frame.pc = "idle"
    /\ Len(frame.sims) < 2
    /\ \E times \in TimeGrids, n_paths \in PathCounts, seed \in Seeds :
          frame' = [frame EXCEPT !.pc = "draw",
                                 !.sim = [NoSimulation EXCEPT !.times = times,
                                                              !.n_paths = n_paths,
                                                              !.seed = seed,
                                                              !.was = frame.global]]
    /\ UNCHANGED run

\* a variant of line 16 that draws from the module-level generator
SimDrawGlobal ==
    /\ frame.op = "simulate"
    /\ frame.pc = "draw"
    /\ frame' = [frame EXCEPT
                   !.pc = "zeros",
                   !.global = Generator(frame.global.seed, frame.global.pos + 1),
                   !.sim.draws = Append(@, Len(frame.sim.evolves)),
                   !.sim.dW = [i \in 1..(Len(frame.sim.times) - 1) |->
                                 [f \in 1..factors |->
                                    [p \in 1..frame.sim.n_paths |->
                                       standard_normal(frame.global.seed,
                                                       i + frame.global.pos, f, p)]]]]
    /\ UNCHANGED run

\* line 16: dW is drawn from np.random.RandomState(seed); draws records how
\* many evolve calls have been made before
SimDraw ==
    /\ frame.op = "simulate"
    /\ frame.pc = "draw"
    /\ frame' = [frame EXCEPT
                   !.pc = "zeros",
                   !.sim.draws = Append(@, Len(frame.sim.evolves)),
                   !.sim.dW = [i \in 1..(Len(frame.sim.times) - 1) |->
                                 [f \in 1..factors |->
                                    [p \in 1..frame.sim.n_paths |->
                                       standard_normal(frame.sim.seed, i, f, p)]]]]
    /\ UNCHANGED run

\* lines 18-19: X is allocated with zeros and X[0] is set to the initial
\* values; written records the rows of X (0-based) in the order of the writes
SimZeros ==
    /\ frame.op = "simulate"
    /\ frame.pc = "zeros"
    /\ frame' = [frame EXCEPT
                   !.pc = "loop",
                   !.sim.written = << 0 >>,
                   !.sim.X = [j \in 1..Len(frame.sim.times) |->
                                [d \in 1..size |->
                                   [p \in 1..frame.sim.n_paths |->
                                      IF j = 1 THEN initial_values[d] ELSE 0]]]]
    /\ UNCHANGED run

\* a variant of lines 20-21 that evolves every step from X[0]
SimEvolveFromStart ==
    /\ frame.op = "simulate"
    /\ frame.pc = "loop"
    /\ frame.sim.i < Len(frame.sim.times) - 1
    /\ \E j \in {frame.sim.i + 1} :
          \E call \in {[ t0 |-> frame.sim.times[j], X0 |-> frame.sim.X[1],
                         dt |-> frame.sim.times[j + 1] - frame.sim.times[j],
                         dW |-> frame.sim.dW[j] ]} :
              \E ret \in {evolve(frame.sim.model, call.t0, call.X0, call.dt, call.dW)} :
                  frame' = [frame EXCEPT
                              !.sim.i = j,
                              !.sim.evolves = Append(@, << call, ret >>),
                              !.sim.written = Append(@, j),
                              !.sim.X[j + 1] = ret]
    /\ UNCHANGED run

\* lines 20-21, one pass of the loop: X[i+1] = model.evolve(times[i], X[i],
\* times[i+1]-times[i], dW[i]); evolves records the arguments and the result
\* of each call
SimEvolve ==
    /\ frame.op = "simulate"
    /\ frame.pc = "loop"
    /\ frame.sim.i < Len(frame.sim.times) - 1
    /\ \E j \in {frame.sim.i + 1} :
          \E call \in {[ t0 |-> frame.sim.times[j], X0 |-> frame.sim.X[j],
                         dt |-> frame.sim.times[j + 1] - frame.sim.times[j],
                         dW |-> frame.sim.dW[j] ]} :
              \E ret \in {evolve(frame.sim.model, call.t0, call.X0, call.dt, call.dW)} :
                  frame' = [frame EXCEPT
                              !.sim.i = j,
                              !.sim.evolves = Append(@, << call, ret >>),
                              !.sim.written = Append(@, j),
                              !.sim.X[j + 1] = ret]
    /\ UNCHANGED run

\* the loop has ended and the constructor returns the simulation
SimReturn ==
    /\ frame.op = "simulate"
    /\ frame.pc = "loop"
    /\ frame.sim.i >= Len(frame.sim.times) - 1
    /\ frame' = [frame EXCEPT !.pc = "idle", !.sims = Append(@, frame.sim)]
    /\ UNCHANGED run

NextSimulation ==
    \/ GlobalUse
    \/ SimNew
    \/ SimDraw
    \/ SimZeros
    \/ SimEvolve
    \/ SimReturn

SpecSimulation == InitSimulation /\ [][NextSimulation]_vars

-----------------------------------------------------------------------------
(* The objects behind a pricing run: bermudan_option_npv over one method    *)
(* object, statement by statement, on a store of ndarray buffers.  Every    *)
(* name of the code holds a reference to a buffer; a slice, a reshape and   *)
(* an index of numpy give a view, which reads and writes the buffer of the  *)
(* array it was taken from, and every other expression allocates a buffer.  *)
(* Buffer 0 is simulation.X.                                                *)

\* the pricing runs made with one method object
MaxRuns == 2

\* a reference: buffer base, ndim, and for a view the time index t of the
\* tensor (0: none), the first n columns (0: all), the row (0: all rows)
Ref(base, ndim, t, n, row) == [base |-> base, ndim |-> ndim, t |-> t, n |-> n, row |-> row]

NoRef == Ref(0 - 1, 0, 0, 0, 0)

\* the values seen through a reference
Deref(store, r) ==
    IF r.ndim = 1
    THEN IF r.n > 0 THEN Slice(store[r.base], 0, r.n) ELSE store[r.base]
    ELSE The({ IF r.n > 0 THEN Cols(sel, r.n) ELSE sel
               : sel \in { IF r.row > 0
                           THEN << (IF r.t > 0 THEN store[r.base][r.t] ELSE store[r.base])[r.row] >>
                           ELSE IF r.t > 0 THEN store[r.base][r.t] ELSE store[r.base] } })

\* the array seen through a reference
ArrOf(store, r) == IF r.ndim = 1 THEN Arr1(Deref(store, r)) ELSE Arr2(Deref(store, r))

\* r[i] = val: a write through a reference reaches the buffer behind it
Write(store, r, i, val) ==
    IF r.ndim = 1 THEN [store EXCEPT ![r.base][i] = val]
    ELSE LET ri == IF r.row > 0 THEN r.row ELSE i
         IN  IF r.t > 0
             THEN [store EXCEPT ![r.base][r.t][ri] =
                      [p \in 1..Len(@) |-> IF p <= Len(val) THEN val[p] ELSE @[p]]]
             ELSE [store EXCEPT ![r.base][ri] =
                      [p \in 1..Len(@) |-> IF p <= Len(val) THEN val[p] ELSE @[p]]]

\* the buffer of the next allocation
FreshId(store) ==
    CHOOSE i \in 0..Cardinality(DOMAIN store) :
        i \notin DOMAIN store /\ \A j \in 0..(i - 1) : j \in DOMAIN store

Alloc(store, content) == store @@ (FreshId(store) :> content)

\* the buffers that are still referenced
Keep(store, refs) == [b \in {0} \cup ({r.base : r \in refs} \cap DOMAIN store) |-> store[b]]

\* a variant of the loop of Regression.monomials that multiplies into the
\* control rows
RECURSIVE MonomialStepsIntoControl(_, _, _, _, _)
MonomialStepsIntoControl(store, xr, cr, mis, s) ==
    IF s = 0 THEN store
    ELSE The({ Write(st, cr, ((s - 1) % Len(mis[1])) + 1,
                     [p \in 1..Len(Deref(st, cr)[1]) |->
                        FMul(Deref(st, xr)[((s - 1) \div Len(mis[1])) + 1][p],
                             FPow(Deref(st, cr)[((s - 1) % Len(mis[1])) + 1][p],
                                  mis[((s - 1) \div Len(mis[1])) + 1][((s - 1) % Len(mis[1])) + 1]))])
               : st \in {MonomialStepsIntoControl(store, xr, cr, mis, s - 1)} })

\* Regression.monomials, lines 25-27: the first s passes of
\* x[i] *= control[j]**multi_idx_set[i,j], in the order of the two loops
RECURSIVE MonomialSteps(_, _, _, _, _)
MonomialSteps(store, xr, cr, mis, s) ==
    IF s = 0 THEN store
    ELSE The({ Write(st, xr, ((s - 1) \div Len(mis[1])) + 1,
                     [p \in 1..Len(Deref(st, cr)[1]) |->
                        FMul(Deref(st, xr)[((s - 1) \div Len(mis[1])) + 1][p],
                             FPow(Deref(st, cr)[((s - 1) % Len(mis[1])) + 1][p],
                                  mis[((s - 1) \div Len(mis[1])) + 1][((s - 1) % Len(mis[1])) + 1]))])
               : st \in {MonomialSteps(store, xr, cr, mis, s - 1)} })

\* Regression.monomials for the control matrix behind cr: x = np.ones(...),
\* the loop, return x.  The result is the store and the reference x.
MemMonomials(store, cr, mis) ==
    The({ [ store |-> MonomialSteps(
                          Alloc(store, [i \in 1..Len(mis) |->
                                           [p \in 1..Len(Deref(store, cr)[1]) |-> FixOne]]),
                          Ref(id, 2, 0, 0, 0), cr, mis, Len(mis) * Len(mis[1])),
            ref |-> Ref(id, 2, 0, 0, 0) ]
          : id \in {FreshId(store)} })

\* Regression.__init__ for the controls behind cr: the store, and the object R
MemRegression(store, cr, observations, max_polynomial_degree) ==
    The({ The({ [ store |-> mm.store,
                  R |-> Fitted([ max_polynomial_degree |-> max_polynomial_degree,
                                 multi_idx_set |-> mis,
                                 beta |-> lstsq(Deref(mm.store, mm.ref), observations) ]) ]
                : mm \in { MemMonomials(store, cr, mis) } })
          : mis \in { multi_index_set(Len(Deref(store, cr)), max_polynomial_degree + 1) } })

\* controls.__call__(X, t) for the batch behind xr: X[0].reshape(1,-1) of
\* StateVariableControls is a view of X, the rate of CoterminalRateControls
\* is a new array
MemControls(store, c, hw, xr, t) ==
    IF c.kind = "StateVariable"
    THEN [ store |-> store, ref |-> [xr EXCEPT !.row = 1] ]
    ELSE [ store |-> Alloc(store, Controls(c, hw, Deref(store, xr), t)),
           ref |-> Ref(FreshId(store), 2, 0, 0, 0) ]

\* R.value(self.controls(x, t)): the store and the values
MemRegressionValue(store, R, c, hw, xr, t) ==
    The({ The({ [ store |-> mm.store,
                  v |-> The({ [p \in 1..Len(rows[1]) |->
                                  FSum([i \in 1..Len(R.beta) |-> FMul(R.beta[i], rows[i][p])])]
                              : rows \in {Deref(mm.store, mm.ref)} }) ]
                : mm \in { MemMonomials(cc.store, cc.ref, R.multi_idx_set) } })
          : cc \in { MemControls(store, c, hw, xr, t) } })

\* V0 = np.zeros(...) and V0[i] = ... for every i: the writes i..Len(vals)
RECURSIVE WriteEach(_, _, _, _)
WriteEach(store, r, vals, i) ==
    IF i > Len(vals) THEN store
    ELSE WriteEach(Write(store, r, i, vals[i]), r, vals, i + 1)

\* the local names of a roll_back call
NoLocals ==
    [ T0 |-> 0, T1 |-> 0, x0 |-> NoRef, x1 |-> NoRef, U1 |-> NoRef, H1 |-> NoRef,
      N0 |-> NoRef, N1 |-> NoRef, V0 |-> NoRef, R |-> NotFitted, entry |-> << >> ]

\* the last exercise time of the runs that share the method object
MemTimes == 2

\* the schedules of these runs: one or two exercise times
MemSchedules ==
    {s \in IncreasingSchedules : Len(s) \in 1..2 /\ \A i \in 1..Len(s) : s[i] <= FInt(MemTimes)}

\* the method objects of these runs: every class, the AMC solvers over the
\* simulation of seed 0
MemMethods ==
    {m \in Methods :
        IsAmc(m) => m.simulation = MonteCarloSimulation(TheModel, SimulationTimes, NPaths, 0)}

\* method has been constructed and the first run with it starts
InitMemory ==
    /\ NoRun
    /\ method \in MemMethods
    /\ \E s \in MemSchedules :
          frame = [ op |-> "memory", pc |-> "loop",
                    store |-> (0 :> (IF IsAmc(method) THEN method.simulation.X ELSE << >>)),
                    obj |-> method, expiry_times |-> s, k |-> Len(s),
                    x |-> NoRef, U |-> NoRef, H |-> NoRef, loc |-> NoLocals,
                    log |-> << >>, npvs |-> << >> ]

\* bermudan_option.py lines 40-41: x = method.states(T) is the view
\* X[t_idx,:,:] for an AMC solver (amc_solver.py line 70) and a new grid for a
\* quadrature method; H = np.zeros(x.shape[-1])
MemFirst ==
    /\ frame.op = "memory"
    /\ frame.pc = "loop"
    /\ frame.k = Len(frame.expiry_times)
    /\ \E st \in { IF IsAmc(frame.obj) THEN frame.store
                   ELSE Alloc(frame.store,
                              DensityStates(frame.obj, frame.expiry_times[frame.k]).v) },
          xr \in { IF IsAmc(frame.obj)
                   THEN Ref(0, 2, nearest_index(frame.obj, frame.expiry_times[frame.k]) + 1, 0, 0)
                   ELSE Ref(FreshId(frame.store), 1, 0, 0, 0) } :
          frame' = [frame EXCEPT !.store = Alloc(st, Zeros(NPoints(ArrOf(st, xr)))),
                                 !.x = xr,
                                 !.H = Ref(FreshId(st), 1, 0, 0, 0),
                                 !.pc = "payoff"]
    /\ UNCHANGED run

\* bermudan_option.py line 44: the payoff reads the view x.reshape(...) and
\* returns a new array
MemPayoff ==
    /\ frame.op = "memory"
    /\ frame.pc = "payoff"
    /\ \E ur \in { Ref(FreshId(frame.store), 1, 0, 0, 0) } :
          frame' = [frame EXCEPT
                      !.store = Keep(Alloc(@, CouponBondAt(Underlying(frame.expiry_times[frame.k]),
                                                           Reshape2D(ArrOf(frame.store, frame.x)))),
                                     {frame.x, frame.H, ur}),
                      !.U = ur,
                      !.k = @ - 1,
                      !.pc = IF frame.k - 1 > 0 THEN "loop" ELSE "final"]
    /\ UNCHANGED run

\* bermudan_option.py lines 43 and 45: roll_back is entered with the arrays of
\* the caller as x1, U1, H1; amc_solver.py lines 73-75 and 97-99
MemEnter ==
    /\ frame.op = "memory"
    /\ \/ frame.pc = "loop" /\ frame.k < Len(frame.expiry_times)
       \/ frame.pc = "final"
    /\ \E T0 \in { IF frame.pc = "final" THEN 0 ELSE frame.expiry_times[frame.k] },
          T1 \in { frame.expiry_times[frame.k + 1] } :
          \E x0 \in { IF IsAmc(frame.obj)
                      THEN Ref(0, 2, nearest_index(frame.obj, T0) + 1, 0, 0) ELSE NoRef },
             entry \in { << ArrOf(frame.store, frame.x), Deref(frame.store, frame.U),
                            Deref(frame.store, frame.H) >> } :
             IF IsAmc(frame.obj)
             THEN \E s1 \in { Alloc(frame.store,
                                    numeraire(frame.obj.simulation.model,
                                              Deref(frame.store, x0), T0)) } :
                     frame' = [frame EXCEPT
                                 !.store = Alloc(s1, numeraire(frame.obj.simulation.model,
                                                               Deref(frame.store, frame.x), T1)),
                                 !.loc = [ NoLocals EXCEPT !.T0 = T0, !.T1 = T1, !.x0 = x0,
                                             !.x1 = frame.x, !.U1 = frame.U, !.H1 = frame.H,
                                             !.N0 = Ref(FreshId(frame.store), 1, 0, 0, 0),
                                             !.N1 = Ref(FreshId(s1), 1, 0, 0, 0),
                                             !.entry = entry ],
                                 !.pc = "test"]
             ELSE frame' = [frame EXCEPT
                              !.loc = [ NoLocals EXCEPT !.T0 = T0, !.T1 = T1,
                                          !.x1 = frame.x, !.U1 = frame.U, !.H1 = frame.H,
                                          !.entry = entry ],
                              !.pc = "quad"]
    /\ UNCHANGED run

\* amc_solver.py lines 76-80 and 100-103: the controls of the training paths
\* (a view of x0 or of x1 for StateVariableControls) and the Regression R,
\* a local name of the call
MemFit ==
    /\ frame.op = "memory"
    /\ frame.pc = "test"
    /\ frame.obj.minSampleIdx > 0 /\ frame.loc.T0 > 0
    /\ \E kk \in { frame.obj.minSampleIdx }, U1 \in { Deref(frame.store, frame.loc.U1) },
          H1 \in { Deref(frame.store, frame.loc.H1) } :
          \E cc \in { IF frame.obj.kind = "Amc"
                      THEN MemControls(frame.store, frame.obj.controls, frame.obj.simulation.model,
                                       [frame.loc.x0 EXCEPT !.n = kk], frame.loc.T0)
                      ELSE MemControls(frame.store, frame.obj.controls, frame.obj.simulation.model,
                                       [frame.loc.x1 EXCEPT !.n = kk], frame.loc.T1) },
             O \in { IF frame.obj.kind = "Amc"
                     THEN Discounted(Slice(Deref(frame.store, frame.loc.N0), 0, kk),
                                     Slice(Deref(frame.store, frame.loc.N1), 0, kk),
                                     Maximum(Slice(U1, 0, kk), Slice(H1, 0, kk)))
                     ELSE Minus(Slice(U1, 0, kk), Slice(H1, 0, kk)) } :
             \E fit \in { MemRegression(cc.store, cc.ref, O, frame.obj.max_polynomial_degree) } :
                frame' = [frame EXCEPT !.store = fit.store, !.loc.R = fit.R, !.pc = "value"]
    /\ UNCHANGED run

\* amc_solver.py lines 81 and 83, and lines 104-107: the values V0, a new array
MemValue ==
    /\ frame.op = "memory"
    /\ \/ frame.pc = "value"
       \/ frame.pc = "test" /\ ~(frame.obj.minSampleIdx > 0 /\ frame.loc.T0 > 0)
    /\ \E N0 \in { Deref(frame.store, frame.loc.N0) }, N1 \in { Deref(frame.store, frame.loc.N1) },
          U1 \in { Deref(frame.store, frame.loc.U1) }, H1 \in { Deref(frame.store, frame.loc.H1) },
          rv \in { IF ~frame.loc.R.fitted THEN [store |-> frame.store, v |-> << >>]
                   ELSE IF frame.obj.kind = "Amc"
                   THEN MemRegressionValue(frame.store, frame.loc.R.R, frame.obj.controls,
                                           frame.obj.simulation.model, frame.loc.x0, frame.loc.T0)
                   ELSE MemRegressionValue(frame.store, frame.loc.R.R, frame.obj.controls,
                                           frame.obj.simulation.model, frame.loc.x1, frame.loc.T1) } :
          frame' = [frame EXCEPT
                      !.store = Alloc(rv.store,
                          IF frame.obj.kind = "Amc"
                          THEN IF frame.loc.R.fitted THEN rv.v
                               ELSE Discounted(N0, N1, Maximum(U1, H1))
                          ELSE Discounted(N0, N1,
                                   ExerciseOrHold(IF frame.loc.R.fitted THEN rv.v
                                                  ELSE Minus(U1, H1), U1, H1))),
                      !.loc.V0 = Ref(FreshId(rv.store), 1, 0, 0, 0),
                      !.pc = "return"]
    /\ UNCHANGED run

\* roll_back of a quadrature method and of the break-even decorator
\* (density_integrations.py): x0 = self.states(T0) is a new grid, the sub-grids
\* of the decorator are new arrays, and the only writes are V0[i] = ... into
\* the new array V0
MemQuad ==
    /\ frame.op = "memory"
    /\ frame.pc = "quad"
    /\ \E r \in { RollBack(frame.obj, frame.loc.T0, frame.loc.T1,
                           ArrOf(frame.store, frame.loc.x1),
                           Deref(frame.store, frame.loc.U1),
                           Deref(frame.store, frame.loc.H1)) } :
          IF r.ok
          THEN \E s1 \in { Alloc(frame.store, r.x0.v) } :
                  frame' = [frame EXCEPT
                              !.store = WriteEach(Alloc(s1, Zeros(Len(r.H0))),
                                                  Ref(FreshId(s1), 1, 0, 0, 0), r.H0, 1),
                              !.loc.x0 = Ref(FreshId(frame.store), 1, 0, 0, 0),
                              !.loc.V0 = Ref(FreshId(s1), 1, 0, 0, 0),
                              !.pc = "return"]
          ELSE frame' = [frame EXCEPT
                           !.log = Append(@, [ T0 |-> frame.loc.T0, T1 |-> frame.loc.T1,
                                               entry |-> frame.loc.entry,
                                               exit |-> << ArrOf(frame.store, frame.loc.x1),
                                                           Deref(frame.store, frame.loc.U1),
                                                           Deref(frame.store, frame.loc.H1) >>,
                                               ret |-> r ]),
                           !.npvs = Append(@, [ expiry_times |-> frame.expiry_times,
                                                npv |-> NaN, err |-> r.err ]),
                           !.loc = NoLocals,
                           !.pc = "done"]
    /\ UNCHANGED run

\* a variant of the return that first copies the values into the array H1 of
\* the caller, H1[:] = V0
MemReturnThroughH1 ==
    /\ frame.op = "memory"
    /\ frame.pc = "return"
    /\ \E s0 \in { IF Len(Deref(frame.store, frame.loc.V0)) = Len(Deref(frame.store, frame.loc.H1))
                   THEN WriteEach(frame.store, frame.loc.H1, Deref(frame.store, frame.loc.V0), 1)
                   ELSE frame.store } :
       \E V0 \in { Deref(s0, frame.loc.V0) },
          sampleIdx \in { IF IsAmc(frame.obj)
                             /\ frame.obj.minSampleIdx < frame.obj.simulation.n_paths
                          THEN frame.obj.minSampleIdx ELSE 0 } :
          \E s1 \in { IF IsAmc(frame.obj) /\ frame.loc.T0 = 0
                      THEN Alloc(s0, Zeros(1)) ELSE s0 } :
             \E s2 \in { IF IsAmc(frame.obj) /\ frame.loc.T0 = 0
                         THEN Alloc(s1, << Mean(Slice(V0, sampleIdx, Len(V0))) >>) ELSE s1 },
                xr \in { IF IsAmc(frame.obj) /\ frame.loc.T0 = 0
                         THEN Ref(FreshId(s0), 1, 0, 0, 0) ELSE frame.loc.x0 },
                hr \in { IF IsAmc(frame.obj) /\ frame.loc.T0 = 0
                         THEN Ref(FreshId(s1), 1, 0, 0, 0) ELSE frame.loc.V0 } :
                frame' = [frame EXCEPT
                            !.log = Append(@, [ T0 |-> frame.loc.T0, T1 |-> frame.loc.T1,
                                                entry |-> frame.loc.entry,
                                                exit |-> << ArrOf(s2, frame.loc.x1),
                                                            Deref(s2, frame.loc.U1),
                                                            Deref(s2, frame.loc.H1) >>,
                                                ret |-> Returned(ArrOf(s2, xr), Deref(s2, hr)) ]),
                            !.store = Keep(s2, {xr, hr, frame.U}),
                            !.x = xr,
                            !.H = hr,
                            !.loc = NoLocals,
                            !.pc = IF frame.k = 0 THEN "interp" ELSE "payoff"]
    /\ UNCHANGED run

\* amc_solver.py lines 84-87 and 108-111, density_integrations.py line 61, and
\* the assignment (x, H) = ... of bermudan_option.py lines 43 and 45: the
\* result is bound to x and H, and the local names of the call are dropped
MemReturn ==
    /\ frame.op = "memory"
    /\ frame.pc = "return"
    /\ \E V0 \in { Deref(frame.store, frame.loc.V0) },
          sampleIdx \in { IF IsAmc(frame.obj)
                             /\ frame.obj.minSampleIdx < frame.obj.simulation.n_paths
                          THEN frame.obj.minSampleIdx ELSE 0 } :
          \E s1 \in { IF IsAmc(frame.obj) /\ frame.loc.T0 = 0
                      THEN Alloc(frame.store, Zeros(1)) ELSE frame.store } :
             \E s2 \in { IF IsAmc(frame.obj) /\ frame.loc.T0 = 0
                         THEN Alloc(s1, << Mean(Slice(V0, sampleIdx, Len(V0))) >>) ELSE s1 },
                xr \in { IF IsAmc(frame.obj) /\ frame.loc.T0 = 0
                         THEN Ref(FreshId(frame.store), 1, 0, 0, 0) ELSE frame.loc.x0 },
                hr \in { IF IsAmc(frame.obj) /\ frame.loc.T0 = 0
                         THEN Ref(FreshId(s1), 1, 0, 0, 0) ELSE frame.loc.V0 } :
                frame' = [frame EXCEPT
                            !.log = Append(@, [ T0 |-> frame.loc.T0, T1 |-> frame.loc.T1,
                                                entry |-> frame.loc.entry,
                                                exit |-> << ArrOf(s2, frame.loc.x1),
                                                            Deref(s2, frame.loc.U1),
                                                            Deref(s2, frame.loc.H1) >>,
                                                ret |-> Returned(ArrOf(s2, xr), Deref(s2, hr)) ]),
                            !.store = Keep(s2, {xr, hr, frame.U}),
                            !.x = xr,
                            !.H = hr,
                            !.loc = NoLocals,
                            !.pc = IF frame.k = 0 THEN "interp" ELSE "payoff"]
    /\ UNCHANGED run

\* bermudan_option.py lines 46-49: x[0] is a view, np.interp reads it
MemInterp ==
    /\ frame.op = "memory"
    /\ frame.pc = "interp"
    /\ \E xp \in { IF frame.x.ndim > 1 THEN Deref(frame.store, frame.x)[1]
                   ELSE Deref(frame.store, frame.x) },
          fp \in { Deref(frame.store, frame.H) } :
          frame' = [frame EXCEPT
                      !.npvs = Append(@, [ expiry_times |-> frame.expiry_times,
                                           npv |-> IF Len(xp) # Len(fp) \/ Len(xp) = 0
                                                   THEN NaN ELSE Interp(0, xp, fp),
                                           err |-> IF Len(xp) # Len(fp) \/ Len(xp) = 0
                                                   THEN "ValueError" ELSE "none" ]),
                      !.pc = "done"]
    /\ UNCHANGED run

\* the next pricing run with the same method object, as the runs of
\* tests/test_bermudan_option.py that share one method
MemAgain ==
    /\ frame.op = "memory"
    /\ frame.pc = "done"
    /\ Len(frame.npvs) < MaxRuns
    /\ \E s \in MemSchedules :
          frame' = [frame EXCEPT !.store = Keep(@, {}), !.expiry_times = s, !.k = Len(s),
                                 !.x = NoRef, !.U = NoRef, !.H = NoRef, !.pc = "loop"]
    /\ UNCHANGED run

NextMemory ==
    MemFirst \/ MemPayoff \/ MemEnter \/ MemFit \/ MemValue \/ MemQuad \/ MemReturn
    \/ MemInterp \/ MemAgain

SpecMemory == InitMemory /\ [][NextMemory]_vars

-----------------------------------------------------------------------------
(* The volatility term structure: tests/test_hull_white_model.py builds a  *)
(* model on several volatility knots and a model on a single knot and      *)
(* compares sigma(t) and y(t) of the two.                                  *)

\* volatility knots and test times lie on the half years
HalfYears(n) == {i * (FixOne \div 2) : i \in 0..n}

\* the strictly ascending arrays of 1 .. MaxLen volatility knots
VolatilityTimes ==
    UNION { {s \in [1..m -> HalfYears(MaxTime)] : StrictlyIncreasing(s)} : m \in 1..MaxLen }

VolatilityLevels == {FixOne, 2 * FixOne}

MeanReversions == {FixOne, 2 * FixOne}

\* the times at which the model is asked: the half years to beyond the last
\* knot and a time between two of them
TestTimes == HalfYears(MaxTime + 1) \cup {FixOne \div 4}

\* HullWhiteModel.__init__: the fields set from the arguments
HullWhiteModel(rate, mean_reversion, volatility_times, volatility_values) ==
    [ rate              |-> rate,
      mean_reversion    |-> mean_reversion,
      volatility_times  |-> volatility_times,
      volatility_values |-> volatility_values ]

\* the two constructor calls are about to be made: model_flat has one knot
\* and the first volatility value of model
InitVolatility ==
    /\ NoRun
    /\ method = [kind |-> "none"]
    /\ \E volatility_times \in VolatilityTimes, a \in MeanReversions,
          knot \in HalfYears(MaxTime) :
          \E volatility_values \in [1..Len(volatility_times) -> VolatilityLevels] :
              frame = [ op |-> "volatility", pc |-> "new",
                        model |-> HullWhiteModel(TheModel.rate, a, volatility_times,
                                                 volatility_values),
                        model_flat |-> HullWhiteModel(TheModel.rate, a, << knot >>,
                                                      << volatility_values[1] >>),
                        y_ |-> << >>, flat_y_ |-> << >>,
                        last |-> [fn |-> "none"] ]

\* HullWhiteModel.__init__ of both models: the loop that fills self.y_
VolConstruct ==
    /\ frame.op = "volatility"
    /\ frame.pc = "new"
    /\ frame' = [frame EXCEPT
                   !.pc = "ready",
                   !.y_ = [i \in 1..Len(frame.model.volatility_times)
                             |-> y_(frame.model, i)],
                   !.flat_y_ = << y_(frame.model_flat, 1) >>]
    /\ UNCHANGED run

\* model.sigma(t) and model_flat.sigma(t)
VolSigma ==
    /\ frame.op = "volatility"
    /\ frame.pc = "ready"
    /\ \E t \in TestTimes :
          frame' = [frame EXCEPT
                      !.last = [ fn |-> "sigma", t |-> t,
                                 ret |-> sigma(frame.model, t),
                                 flat |-> sigma(frame.model_flat, t) ]]
    /\ UNCHANGED run

\* model.y(t) and model_flat.y(t)
VolY ==
    /\ frame.op = "volatility"
    /\ frame.pc = "ready"
    /\ \E t \in TestTimes :
          frame' = [frame EXCEPT
                      !.last = [ fn |-> "y", t |-> t,
                                 ret |-> y(frame.model, t),
                                 flat |-> y(frame.model_flat, t) ]]
    /\ UNCHANGED run

NextVolatility == VolConstruct \/ VolSigma \/ VolY

SpecVolatility == InitVolatility /\ [][NextVolatility]_vars

-----------------------------------------------------------------------------
(* AmcSolver.nearest_index and AmcSolver.states on simulations over        *)
(* arbitrary ascending times                                               *)

\* the non-empty ascending arrays of up to MaxLen half years
AscendingTimes ==
    UNION { {s \in [1..m -> HalfYears(MaxTime)] : \A i \in 1..(m - 1) : s[i] <= s[i + 1]}
            : m \in 1..MaxLen }

\* the times asked for: the eighths of a year from before the first half year
\* to beyond the last one
AskedTimes == {i * (FixOne \div 8) : i \in (0 - 2)..(4 * MaxTime + 6)}

\* a solver has been constructed on a simulation over the times
InitNearest ==
    /\ NoRun
    /\ \E variant \in AmcVariants, times \in AscendingTimes :
          method = NewAmcSolver(variant, MonteCarloSimulation(TheModel, times, NPaths, 0),
                                1, FixOne \div 4, StateVariableControls)
    /\ frame = [ op |-> "nearest", pc |-> "ready", fn |-> "none", t |-> 0,
                 idx |-> 0, ret |-> NoArr, err |-> "none" ]

\* method.nearest_index(t)
NearestIndex ==
    /\ frame.op = "nearest"
    /\ \E t \in AskedTimes :
          frame' = [frame EXCEPT !.pc = "done", !.fn = "nearest_index", !.t = t,
                                 !.idx = nearest_index(method, t),
                                 !.ret = NoArr, !.err = "none"]
    /\ UNCHANGED run

\* method.states(expiryTime): self.simulation.X[t_idx,:,:] raises an IndexError
\* for a t_idx that is not a row of X
NearestStates ==
    /\ frame.op = "nearest"
    /\ \E expiryTime \in AskedTimes :
          \E t_idx \in {nearest_index(method, expiryTime)} :
             frame' = [frame EXCEPT
                         !.pc = "done", !.fn = "states", !.t = expiryTime,
                         !.idx = t_idx,
                         !.ret = IF t_idx \in 0..(Len(method.simulation.X) - 1)
                                 THEN AmcStates(method, expiryTime)
                                 ELSE NoArr,
                         !.err = IF t_idx \in 0..(Len(method.simulation.X) - 1)
                                 THEN "none"
                                 ELSE "IndexError"]
    /\ UNCHANGED run

NextNearest == NearestIndex \/ NearestStates

SpecNearest == InitNearest /\ [][NextNearest]_vars

-----------------------------------------------------------------------------
(* Properties of bermudan_option_npv *)

\* the arguments meet the preconditions of bermudan_option_npv
ValidArgs ==
    /\ Len(expiry_times) >= 1
    /\ StrictlyIncreasing(expiry_times)
    /\ Len(underlying_payoffs) = Len(expiry_times)

IsMethodCall(c) == c.fn # "at"

\* the calls made on method so far, as (name, T0, T1)
MethodCalls ==
    LET mc == SelectSeq(calls, IsMethodCall)
    IN  [i \in 1..Len(mc) |-> << mc[i].fn, mc[i].T0, mc[i].T1 >>]

\* states(T_n), roll_back(T_{n-1}, T_n), ..., roll_back(T_1, T_2), roll_back(0, T_1)
ExpectedCalls ==
    LET n == Len(expiry_times)
    IN  [i \in 1..(n + 1) |->
            IF i = 1 THEN << "states", expiry_times[n], 0 >>
            ELSE IF i = n + 1 THEN << "roll_back", 0, expiry_times[1] >>
            ELSE << "roll_back", expiry_times[n - i + 1], expiry_times[n - i + 2] >>]

IsPrefix(s, t) == Len(s) <= Len(t) /\ \A i \in 1..Len(s) : s[i] = t[i]

\* C1: for a schedule T_1 < ... < T_n, n >= 1, the calls made on method are at
\* every moment a prefix of states(T_n), roll_back(T_{n-1}, T_n), ...,
\* roll_back(T_1, T_2), roll_back(0, T_1): states is called once, with T_n,
\* before any roll_back, and no roll_back is skipped or reordered. The run
\* returns only after all n + 1 calls, and it ends early only if the
\* roll_back call made last raised.
C1_CallOrder ==
    ValidArgs =>
        /\ IsPrefix(MethodCalls, ExpectedCalls)
        /\ pc \in {"interp", "done"} => MethodCalls = ExpectedCalls
        /\ pc = "error" => /\ calls # << >>
                           /\ calls[Len(calls)].fn = "roll_back"
                           /\ ~calls[Len(calls)].ret.ok

\* C1: a run over three exercise times has returned
C1_Witness ==
    /\ ValidArgs
    /\ Len(expiry_times) >= 3
    /\ pc = "done"
    /\ Len(MethodCalls) = Len(expiry_times) + 1

\* C2: in every roll_back call, x1 is the batch returned by the preceding call
\* on method (states or roll_back), H1 is the H0 of the preceding roll_back
\* (after states: one zero per point of x1), and U1 is the result of the at
\* call made just before, on the payoff of the exercise time T1 and on that
\* same x1 as a 2-d array. No payoff's at is called twice, and after the run
\* every payoff's at has been called once.
C2_DataFlow ==
    /\ \A i \in 1..Len(calls) :
          calls[i].fn = "roll_back" =>
              /\ i >= 3
              /\ calls[i - 1].fn = "at"
              /\ calls[i - 1].k \in 1..Len(expiry_times)
              /\ expiry_times[calls[i - 1].k] = calls[i].T1
              /\ calls[i - 1].x1 = Reshape2D(calls[i].x1)
              /\ calls[i - 1].x1.ndim = 2
              /\ calls[i].U1 = calls[i - 1].ret.H0
              /\ calls[i].U1 = CouponBondAt(underlying_payoffs[calls[i - 1].k],
                                            Reshape2D(calls[i].x1))
              /\ calls[i - 2].fn \in {"states", "roll_back"}
              /\ calls[i].x1 = calls[i - 2].ret.x0
              /\ calls[i].H1 = IF calls[i - 2].fn = "states"
                               THEN Zeros(NPoints(calls[i].x1))
                               ELSE calls[i - 2].ret.H0
    /\ \A i, j \in 1..Len(calls) :
          (calls[i].fn = "at" /\ calls[j].fn = "at" /\ calls[i].k = calls[j].k) => i = j
    /\ pc = "done" =>
          {calls[i].k : i \in {j \in 1..Len(calls) : calls[j].fn = "at"}}
              = 1..Len(expiry_times)

\* C2: a roll_back call after a roll_back call has been made, on payoffs that differ
C2_Witness ==
    /\ ValidArgs
    /\ pc = "done"
    /\ \E i \in 3..Len(calls) :
          /\ calls[i].fn = "roll_back"
          /\ calls[i - 2].fn = "roll_back"
          /\ calls[i].U1 # CouponBondAt(underlying_payoffs[Len(underlying_payoffs)],
                                        Reshape2D(calls[i].x1))

\* C3: with every method, a roll_back to T0 = 0 that returns gives the single
\* point x0 = 0 with a single value H0, and the value that
\* bermudan_option_npv returns is exactly that H0
C3_FinalPoint ==
    /\ \A i \in 1..Len(calls) :
          (calls[i].fn = "roll_back" /\ calls[i].T0 = 0 /\ calls[i].ret.ok) =>
              /\ calls[i].ret.x0 = Arr1(<< 0 >>)
              /\ Len(calls[i].ret.H0) = 1
    /\ pc = "done" =>
          /\ calls # << >>
          /\ calls[Len(calls)].fn = "roll_back"
          /\ calls[Len(calls)].T0 = 0
          /\ npv = calls[Len(calls)].ret.H0[1]

\* C3: a run with a Monte Carlo method over two exercise times has returned a number
C3_Witness ==
    /\ pc = "done"
    /\ IsAmc(method)
    /\ Len(expiry_times) >= 2
    /\ ~IsNaN(npv)
    /\ npv # 0

\* C4: every roll_back call receives x1, U1 and H1 with the same number of
\* points; a roll_back that returns gives one value of H0 per point of x0,
\* and for T0 > 0 that x0 is states(T0)
C4_Aligned ==
    \A i \in 1..Len(calls) :
        calls[i].fn = "roll_back" =>
            /\ Len(calls[i].U1) = NPoints(calls[i].x1)
            /\ Len(calls[i].H1) = NPoints(calls[i].x1)
            /\ calls[i].ret.ok =>
                  /\ Len(calls[i].ret.H0) = NPoints(calls[i].ret.x0)
                  /\ calls[i].T0 > 0 => calls[i].ret.x0 = States(method, calls[i].T0)

\* C4: two roll_back calls have returned, the first to a time T0 > 0 with more than one point
C4_Witness ==
    \E i, j \in 1..Len(calls) :
        /\ i < j
        /\ calls[i].fn = "roll_back" /\ calls[i].ret.ok /\ calls[i].T0 > 0
        /\ NPoints(calls[i].ret.x0) > 1
        /\ calls[j].fn = "roll_back" /\ calls[j].ret.ok
        /\ calls[j].x1 = calls[i].ret.x0

\* C7: a run with an empty schedule makes no call to states, to roll_back or
\* to a payoff and returns no NPV: its only step is the one that ends it with
\* an IndexError
C7_EmptySchedule ==
    Len(expiry_times) = 0 =>
        /\ calls = << >>
        /\ npv = NaN
        /\ pc \in {"final", "error"}
        /\ pc = "final" => ENABLED FinalRollBack
        /\ pc = "error" => err = "IndexError"

\* C7: a run with an empty schedule has ended in an error
C7_Witness ==
    /\ Len(expiry_times) = 0
    /\ pc = "error"
    /\ err = "IndexError"

\* C8: a run with a schedule that is not strictly increasing (and one payoff
\* per exercise time) makes no roll_back call and returns no NPV
C8_FailFast ==
    ( /\ Len(expiry_times) >= 1
      /\ ~StrictlyIncreasing(expiry_times)
      /\ Len(underlying_payoffs) = Len(expiry_times) ) =>
        /\ \A i \in 1..Len(calls) : calls[i].fn # "roll_back"
        /\ pc # "done"
        /\ npv = NaN

\* C9: a run with a strictly increasing schedule and a number of payoffs other
\* than the number of exercise times returns no NPV
C9_LengthMismatch ==
    ( /\ Len(expiry_times) >= 1
      /\ StrictlyIncreasing(expiry_times)
      /\ Len(underlying_payoffs) # Len(expiry_times) ) =>
        /\ pc # "done"
        /\ npv = NaN

\* a with one more at the path p
Shifted(a, p) == [a EXCEPT ![p] = FAdd(@, FixOne)]

\* the arrays of a roll_back call that a change of path p can reach: the
\* simulated states at T0 (x and s), the states x1 (x and s), U1 and H1
Reachable == {"X0", "S0", "x1", "s1", "U1", "H1"}

\* the method with the simulated states of path p at T0 changed
MethodWith(m, T0, p, what) ==
    LET i == nearest_index(m, T0) + 1
    IN  [m EXCEPT !.simulation.X[i][1] = IF "X0" \in what THEN Shifted(@, p) ELSE @,
                  !.simulation.X[i][2] = IF "S0" \in what THEN Shifted(@, p) ELSE @]

BatchWith(x1, p, what) ==
    [x1 EXCEPT !.v[1] = IF "x1" \in what THEN Shifted(@, p) ELSE @,
               !.v[2] = IF "s1" \in what THEN Shifted(@, p) ELSE @]

ArrayWith(a, p, name, what) == IF name \in what THEN Shifted(a, p) ELSE a

\* the coefficients that the roll_back call c fits with path p changed in the arrays what
BetaWith(c, p, what) ==
    IF method.kind = "Amc"
    THEN AmcFit(MethodWith(method, c.T0, p, what), c.T0, c.T1, BatchWith(c.x1, p, what),
                ArrayWith(c.U1, p, "U1", what), ArrayWith(c.H1, p, "H1", what)).R.beta
    ELSE AmcOnlyExerciseFit(MethodWith(method, c.T0, p, what), c.T0, c.T1,
                            BatchWith(c.x1, p, what),
                            ArrayWith(c.U1, p, "U1", what),
                            ArrayWith(c.H1, p, "H1", what)).R.beta

\* the roll_back call c of an AMC method fits a Regression
FitsRegression(c) ==
    /\ c.fn = "roll_back"
    /\ IsAmc(method)
    /\ method.minSampleIdx > 0
    /\ c.T0 > 0
    /\ c.ret.ok

\* the values that the call c returns are those of the fitted polynomial on all paths
OnEveryPath(c) ==
    LET hw == method.simulation.model
    IN  IF method.kind = "Amc"
        THEN c.ret.H0 = RegressionValue(AmcFit(method, c.T0, c.T1, c.x1, c.U1, c.H1).R,
                                        Controls(method.controls, hw, States(method, c.T0).v, c.T0))
        ELSE c.ret.H0 =
               Discounted(numeraire(hw, States(method, c.T0).v, c.T0),
                          numeraire(hw, c.x1.v, c.T1),
                          ExerciseOrHold(
                              RegressionValue(AmcOnlyExerciseFit(method, c.T0, c.T1, c.x1, c.U1, c.H1).R,
                                              Controls(method.controls, hw, c.x1.v, c.T1)),
                              c.U1, c.H1))

\* C10: in every roll_back call of an AMC method that fits a Regression, the
\* fitted coefficients are the same after a change of the states, of U1 or
\* of H1 (each alone, or all together) on any one path with index at or above
\* minSampleIdx = int(split_ratio * n_paths); and the values returned are
\* those of the fitted polynomial on every path. The history only grows, so
\* each call is examined in the state in which it is the latest one.
C10_TrainingPathsOnly ==
    \A i \in {Len(calls)} \ {0} :
        FitsRegression(calls[i]) =>
            /\ \A beta \in {BetaWith(calls[i], 1, {})} :
                  \A p \in (method.minSampleIdx + 1)..method.simulation.n_paths :
                      \A what \in {{w} : w \in Reachable} \cup {Reachable} :
                          BetaWith(calls[i], p, what) = beta
            /\ Len(calls[i].ret.H0) = method.simulation.n_paths
            /\ OnEveryPath(calls[i])

\* C10: a roll_back call has fitted a Regression to some but not all paths,
\* and the coefficients change with U1 on a path below minSampleIdx
C10_Witness ==
    \E i \in 1..Len(calls) :
        /\ FitsRegression(calls[i])
        /\ method.minSampleIdx < method.simulation.n_paths
        /\ \E p \in 1..method.minSampleIdx :
              BetaWith(calls[i], p, {"U1"}) # BetaWith(calls[i], p, {})
        /\ ~HasNaN(BetaWith(calls[i], 1, {}))

\* the latest call, if it is a roll_back of an AMC method to T0 = 0 that returned
FinalAmcCalls ==
    {c \in {calls[i] : i \in {Len(calls)} \ {0}} :
        c.fn = "roll_back" /\ IsAmc(method) /\ c.T0 = 0 /\ c.ret.ok}

\* the discounted values V0 of an AMC roll_back call to T0 = 0 with the arrays x1, U1, H1
ValuesAtZero(T1, x1, U1, H1) ==
    LET hw == method.simulation.model
        N0 == numeraire(hw, States(method, 0).v, 0)
        N1 == numeraire(hw, x1.v, T1)
    IN  IF method.kind = "Amc"
        THEN Discounted(N0, N1, Maximum(U1, H1))
        ELSE Discounted(N0, N1, ExerciseOrHold(Minus(U1, H1), U1, H1))

\* the arrays of a roll_back call in which a change of a path of x1 shows
AtT1 == {"x1", "s1", "U1", "H1"}

\* the result of the roll_back call c repeated with path p changed in the arrays what
ResultWith(c, p, what) ==
    RollBack(method, c.T0, c.T1, BatchWith(c.x1, p, what),
             ArrayWith(c.U1, p, "U1", what), ArrayWith(c.H1, p, "H1", what))

\* C11 as claimed: an AMC roll_back to T0 = 0 returns x0 = [0] and the mean of
\* the discounted values over the paths with index >= minSampleIdx, and no
\* path with a smaller index enters that mean
C11_OutOfSampleOnly ==
    \A c \in FinalAmcCalls :
        /\ c.ret.x0 = Arr1(<< 0 >>)
        /\ c.ret.H0 = << Mean(Slice(ValuesAtZero(c.T1, c.x1, c.U1, c.H1),
                                    method.minSampleIdx, method.simulation.n_paths)) >>
        /\ \A p \in 1..method.minSampleIdx :
              \A what \in {{w} : w \in AtT1} \cup {AtT1} :
                  ResultWith(c, p, what) = c.ret

\* C11 amended: an AMC roll_back to T0 = 0 returns x0 = [0] and one value. If
\* minSampleIdx < n_paths it is the mean of the discounted values over the
\* paths with index >= minSampleIdx, and no path with a smaller index enters
\* it; if minSampleIdx >= n_paths it is the mean over all paths.
C11_MeanOverSample ==
    \A c \in FinalAmcCalls :
        /\ c.ret.x0 = Arr1(<< 0 >>)
        /\ Len(c.ret.H0) = 1
        /\ \A V0 \in {ValuesAtZero(c.T1, c.x1, c.U1, c.H1)} :
              IF method.minSampleIdx < method.simulation.n_paths
              THEN /\ c.ret.H0[1] = Mean(Slice(V0, method.minSampleIdx,
                                               method.simulation.n_paths))
                   /\ \A p \in 1..method.minSampleIdx :
                         \A what \in {{w} : w \in AtT1} \cup {AtT1} :
                             ResultWith(c, p, what) = c.ret
              ELSE c.ret.H0[1] = Mean(V0)

\* C11: a roll_back to T0 = 0 has returned a mean over some but not all
\* paths that differs from the mean over all paths
C11_Witness ==
    \E c \in FinalAmcCalls :
        /\ method.minSampleIdx > 0
        /\ method.minSampleIdx < method.simulation.n_paths
        /\ ~IsNaN(c.ret.H0[1])
        /\ c.ret.H0[1] # Mean(ValuesAtZero(c.T1, c.x1, c.U1, c.H1))

\* the roll_back call made last on method: by bermudan_option_npv, or directly
LatestRollBack ==
    {c \in {calls[i] : i \in {Len(calls)} \ {0}} : c.fn = "roll_back"}
    \cup {c \in {frame} : c.op = "roll_back" /\ c.pc = "done"}

\* the latest call, if it is a roll_back of AmcSolverOnlyExerciseRegression that returned
OnlyExerciseCalls ==
    {c \in LatestRollBack : method.kind = "AmcOnlyExercise" /\ c.ret.ok}

\* the decision values I of the call c: the values of the fitted polynomial,
\* or U1 - H1 if the call fits no Regression
DecisionValues(c) ==
    IF method.minSampleIdx > 0 /\ c.T0 > 0
    THEN RegressionValue(AmcOnlyExerciseFit(method, c.T0, c.T1, c.x1, c.U1, c.H1).R,
                         Controls(method.controls, method.simulation.model, c.x1.v, c.T1))
    ELSE Minus(c.U1, c.H1)

\* U1 on the paths with a decision value > 0 and H1 on all others, times N0 / N1
SelectedAndDiscounted(c, I) ==
    LET hw == method.simulation.model
        N0 == numeraire(hw, States(method, c.T0).v, c.T0)
        N1 == numeraire(hw, c.x1.v, c.T1)
    IN  [p \in 1..Len(c.U1) |->
            FMul(FDiv(N0[p], N1[p]), IF FGt(I[p], 0) THEN c.U1[p] ELSE c.H1[p])]

FittingCalls ==
    {c \in {frame} : /\ c.op = "roll_back" /\ c.pc = "done"
                     /\ method.minSampleIdx > 0 /\ c.T0 > 0}

\* the control matrix of the strategy controls on the training paths: of the
\* states at T0 for AmcSolver, of the states at T1 for AmcSolverOnlyExerciseRegression
OwnControls(c) ==
    IF method.kind = "Amc"
    THEN Controls(c.controls, method.simulation.model,
                  Cols(States(method, c.T0).v, method.minSampleIdx), c.T0)
    ELSE Controls(c.controls, method.simulation.model,
                  Cols(c.x1.v, method.minSampleIdx), c.T1)

\* C13: a roll_back call that fits a Regression regresses on the control
\* matrix of the controls strategy that was passed to the constructor of the
\* solver: on the states at T0 for AmcSolver, on the states at T1 for
\* AmcSolverOnlyExerciseRegression
C13_OwnControls ==
    \A c \in FittingCalls : c.C = OwnControls(c)

\* the direct roll_back call on a break-even decorator, if it has ended
BreakEvenCalls == {c \in {frame} : c.op = "break_even" /\ c.pc = "done"}

\* the roots of the spline of U1 - H1 of the call c inside the grid x1
RootsOf(c) == SplineRoots(c.x1.v, Minus(c.U1, c.H1), 1)

\* C14: a roll_back call of the break-even decorator with no root of the
\* spline of U1 - H1 inside the grid has made exactly one call of the wrapped
\* roll_back, with its own arguments T0, T1, x1, U1, H1, and has returned the
\* result of that call, which is the result of the undecorated method
C14_Delegates ==
    \A c \in BreakEvenCalls :
        RootsOf(c) = << >> =>
            /\ Len(c.inner) = 1
            /\ \A w \in {c.inner[1]} :
                  /\ << w.T0, w.T1, w.x1, w.U1, w.H1 >> = << c.T0, c.T1, c.x1, c.U1, c.H1 >>
                  /\ c.ret = w.ret
            /\ c.ret = RollBack(method.method, c.T0, c.T1, c.x1, c.U1, c.H1)

\* C14: a roll_back call of the break-even decorator has found no root, where
\* U1 and H1 differ in more than a constant, and has returned a result
C14_Witness ==
    \E c \in BreakEvenCalls :
        /\ RootsOf(c) = << >>
        /\ c.ret.ok
        /\ c.T0 > 0
        /\ \E i, j \in 1..Len(c.U1) : c.U1[i] # c.U1[j]
        /\ \E i \in 1..Len(c.ret.H0) : c.ret.H0[i] # 0 /\ ~IsNaN(c.ret.H0[i])

\* the grid points of the call c below (side = "l") or above (side = "u") z,
\* in ascending order
PointsBeside(c, z, side) ==
    IF side = "l" THEN WhereLess(c.x1.v, z, 1) ELSE WhereGreater(c.x1.v, z, 1)

\* the call w is the wrapped call for the side of xStar, with U = H = VStar at xStar
IsHalf(c, w, xStar, VStar, side) ==
    \A idx \in {PointsBeside(c, xStar, side)} :
        /\ w.T0 = c.T0
        /\ w.T1 = c.T1
        /\ w.x1 = Arr1(IF side = "l" THEN Take(c.x1.v, idx) \o << xStar >>
                                     ELSE << xStar >> \o Take(c.x1.v, idx))
        /\ w.U1 = (IF side = "l" THEN Take(c.U1, idx) \o << VStar >>
                                 ELSE << VStar >> \o Take(c.U1, idx))
        /\ w.H1 = (IF side = "l" THEN Take(c.H1, idx) \o << VStar >>
                                 ELSE << VStar >> \o Take(c.H1, idx))

\* the call c has made the two wrapped calls for xStar and has returned the
\* sum of their results; each grid point other than xStar is in one of them
SplitsAt(c, xStar, VStar) ==
    /\ Len(c.inner) = 2
    /\ IsHalf(c, c.inner[1], xStar, VStar, "l")
    /\ IsHalf(c, c.inner[2], xStar, VStar, "u")
    /\ \A i \in 1..Len(c.x1.v) :
          c.x1.v[i] # xStar =>
              Cardinality({side \in {"l", "u"} :
                              \E j \in 1..Len(PointsBeside(c, xStar, side)) :
                                  PointsBeside(c, xStar, side)[j] = i}) = 1
    /\ c.inner[1].ret.ok
    /\ c.inner[2].ret.ok
    /\ c.ret.ok
    /\ c.ret.x0 = c.inner[2].ret.x0
    /\ c.inner[1].ret.x0 = c.inner[2].ret.x0
    /\ c.ret.H0 = [i \in 1..Len(c.inner[1].ret.H0) |->
                      FAdd(c.inner[1].ret.H0[i], c.inner[2].ret.H0[i])]

\* C15: a roll_back call of the break-even decorator with a root of the
\* spline of U1 - H1 inside the grid, xStar being the first one, has made
\* exactly two calls of the wrapped roll_back: on the grid points below xStar
\* followed by xStar, and on xStar followed by the grid points above it, with
\* U = H = the spline of U1 at xStar there and with the own U1 and H1 of
\* every other point; and it has returned the pointwise sum of the two results
C15_SplitsAtRoot ==
    \A c \in BreakEvenCalls :
        \A roots \in {RootsOf(c)} :
            roots # << >> => SplitsAt(c, roots[1], SplineEval(c.x1.v, c.U1, roots[1]))

\* the Regression of a direct construction, once it is fitted
FittedRegressions == {c \in {frame} : c.op = "regression" /\ c.pc # "init"}

\* the sum of the exponents of the tuple t
RECURSIVE TotalDegree(_)
TotalDegree(t) == IF t = << >> THEN 0 ELSE Head(t) + TotalDegree(Tail(t))

\* every tuple of n exponents >= 0 with a sum <= d
TuplesUpTo(n, d) == {t \in [1..n -> 0..d] : TotalDegree(t) <= d}

\* the monomial of the exponent tuple t at column p of the control matrix
MonomialAt(t, control, p) ==
    LET RECURSIVE Upto(_)
        Upto(j) == IF j = 0 THEN FixOne
                   ELSE FMul(Upto(j - 1), FPow(control[j][p], t[j]))
    IN  Upto(Len(t))

\* C16: the basis of a Regression on n control variables with maximum degree
\* d holds every tuple of n exponents >= 0 with a sum <= d, each once, and no
\* other tuple; the coefficient vector has one entry per tuple and is the
\* least-squares fit to the monomials of the tuples in their order; and
\* value() is the sum over the tuples, in the same order, of coefficient
\* times monomial
C16_MonomialBasis ==
    \A c \in FittedRegressions :
        \A mis \in {c.R.multi_idx_set} :
            /\ {mis[i] : i \in 1..Len(mis)}
                   = TuplesUpTo(Len(c.controls), c.max_polynomial_degree)
            /\ \A i, j \in 1..Len(mis) : mis[i] = mis[j] => i = j
            /\ Len(c.R.beta) = Len(mis)
            /\ c.R.beta = lstsq([i \in 1..Len(mis) |->
                                    [p \in 1..NPaths |-> MonomialAt(mis[i], c.controls, p)]],
                                c.observations)
            /\ c.pc = "done" =>
                  c.value = [p \in 1..NPaths |->
                                FSum([i \in 1..Len(mis) |->
                                         FMul(c.R.beta[i], MonomialAt(mis[i], c.at, p))])]

\* C16: a Regression on more than one control variable with a maximum degree
\* above 1 has been fitted and evaluated, and two coefficients differ
C16_Witness ==
    \E c \in FittedRegressions :
        /\ c.pc = "done"
        /\ Len(c.controls) > 1
        /\ c.max_polynomial_degree > 1
        /\ \E i, j \in 1..Len(c.R.beta) : c.R.beta[i] # c.R.beta[j]
        /\ \E p \in 1..Len(c.value) : c.value[p] # 0 /\ ~IsNaN(c.value[p])

\* the theta_step call, if it has returned
ThetaCalls == {c \in {frame} : c.op = "theta_step" /\ c.pc = "done"}

\* row i of M r for the tridiagonal matrix M of array_L, array_C, array_U
\* and r = array_RHS
RowOfMr(c, i) ==
    (IF i > 1 THEN FMul(c.array_L[i - 1], c.array_RHS[i - 1]) ELSE 0)
    + FMul(c.array_C[i], c.array_RHS[i])
    + (IF i < Len(c.array_C) THEN FMul(c.array_U[i], c.array_RHS[i + 1]) ELSE 0)

\* C17: a theta_step call with theta = 0 has returned r - stepSize * M r, for
\* the tridiagonal matrix M of array_L, array_C, array_U and r = array_RHS,
\* and has not called solve_tridiagonalsystem
C17_ExplicitEuler ==
    \A c \in ThetaCalls :
        c.theta = 0 =>
            /\ c.solves = 0
            /\ c.ret = [i \in 1..Len(c.array_C) |->
                           c.array_RHS[i] - FMul(c.stepSize, RowOfMr(c, i))]

\* C17: a theta_step call with theta = 0 on a system with more than one row
\* and entries above and below the diagonal has returned a vector other than r
C17_Witness ==
    \E c \in ThetaCalls :
        /\ c.theta = 0
        /\ Len(c.array_C) > 1
        /\ c.array_L[1] # 0
        /\ c.array_U[1] # 0
        /\ c.ret # c.array_RHS
        /\ \E i \in 1..Len(c.ret) : c.ret[i] # 0

\* the root search, if it has ended
RootSearches == {c \in {frame} : c.op = "root" /\ c.pc = "done"}

\* the ends of the bracket of the root search c
BracketOf(c) ==
    IF c.fn = "coupon_bond_option" THEN << FNeg(FixOne), FixOne >>
    ELSE IF c.fn = "black_implied_vol" THEN << Decimal(1, 100), FixOne >>
    ELSE IF c.fn = "bachelier_implied_vol" THEN << Decimal(1, 10000), Decimal(1, 10) >>
    ELSE << FOver(FDiv(c.sigma_atm, local_vol_C(c.model, c.model.forward)), 2),
            FScale(2, FDiv(c.sigma_atm, local_vol_C(c.model, c.model.forward))) >>

\* the objective of the root search c is > 0 at both ends of the bracket, or
\* < 0 at both
NoSignChange(c) ==
    \A ab \in {BracketOf(c)} :
        \A fa \in {Objective(c, ab[1])}, fb \in {Objective(c, ab[2])} :
            \/ FGt(fa, 0) /\ FGt(fb, 0)
            \/ FLt(fa, 0) /\ FLt(fb, 0)

\* C18: a root search whose objective has no sign change over its bracket
\* (x in [-1, 1] for coupon_bond_option, sigma in [0.01, 1.00] for
\* black_implied_vol, sigma in [1e-4, 1e-1] for bachelier_implied_vol, alpha
\* in [0.5 alpha0, 2 alpha0] for calibrate_atm) returns no value and ends in
\* the error "root not found", which no other failure raises
C18_RootNotFound ==
    \A c \in RootSearches :
        NoSignChange(c) => ~c.ret.ok /\ c.ret.err = "RootNotFound"

\* the simulations: the one under construction, once dW is drawn and once X
\* is allocated, and the ones that have been constructed
DrawnSimulations ==
    {m.sim : m \in {m \in {frame} : m.op = "simulate" /\ m.pc \in {"zeros", "loop"}}}

AllocatedSimulations ==
    {m.sim : m \in {m \in {frame} : m.op = "simulate" /\ m.pc = "loop"}}

BuiltSimulations ==
    {frame.sims[n] : n \in {n \in 1..2 : frame.op = "simulate" /\ n <= Len(frame.sims)}}

\* X has the shape (len(times), size, n_paths) and X[0] holds the initial
\* values; after i passes of the loop evolve has been called i times, for the
\* steps 0, ..., i-1 in this order, each with (times[j], X[j],
\* times[j+1]-times[j], dW[j]) for the X[j] that is there now; the rows
\* 0, ..., i of X have been written once each, in this order, and row j+1
\* holds the result of call j; the rows after i are still zeros
StepByStep(m) ==
    /\ Len(m.X) = Len(m.times)
    /\ \A j \in 1..Len(m.X) :
          /\ Len(m.X[j]) = size
          /\ \A d \in 1..size : Len(m.X[j][d]) = m.n_paths
    /\ \A d \in 1..size : \A p \in 1..m.n_paths : m.X[1][d][p] = initial_values[d]
    /\ Len(m.evolves) = m.i
    /\ m.written = [j \in 1..(m.i + 1) |-> j - 1]
    /\ \A j \in 1..m.i :
          /\ m.evolves[j][1] = [ t0 |-> m.times[j], X0 |-> m.X[j],
                                 dt |-> m.times[j + 1] - m.times[j], dW |-> m.dW[j] ]
          /\ m.X[j + 1] = m.evolves[j][2]
    /\ \A j \in (m.i + 2)..Len(m.X) :
          \A d \in 1..size : \A p \in 1..m.n_paths : m.X[j][d][p] = 0

\* the result recorded for the latest evolve call of m is that of
\* HullWhiteModel.evolve for the recorded arguments
LatestEvolved(m) ==
    \A j \in {m.i} \ {0} :
        \A call \in {m.evolves[j][1]} :
            m.evolves[j][2] = evolve(m.model, call.t0, call.X0, call.dt, call.dW)

\* C19: a MonteCarloSimulation has X of shape (len(times), size, n_paths)
\* with the initial values in X[0]; model.evolve is called len(times)-1 times,
\* for i = 0, 1, 2, ... in increasing order, with (times[i], X[i],
\* times[i+1]-times[i], dW[i]); and X[i+1] is written once, with the result
\* of that call, after X[i] has got its final value. The records only grow,
\* so each result is examined in the state in which it is the latest one.
C19_EvolveInOrder ==
    /\ \A m \in AllocatedSimulations : StepByStep(m) /\ LatestEvolved(m)
    /\ \A m \in BuiltSimulations : StepByStep(m) /\ m.i = Len(m.times) - 1

\* C19: a simulation over more than two time steps and more than one path
\* has been constructed, in which the state has moved in every step
C19_Witness ==
    \E m \in BuiltSimulations :
        /\ Len(m.times) > 3
        /\ m.n_paths > 1
        /\ \A j \in 1..(Len(m.times) - 1) : m.X[j + 1] # m.X[j]
        /\ \E p, q \in 1..m.n_paths : m.X[Len(m.times)][1][p] # m.X[Len(m.times)][1][q]

\* the random numbers of m are those of a generator seeded with m.seed, and
\* they have been drawn in one draw, before any evolve call
DrawnOnce(m) ==
    /\ m.draws = << 0 >>
    /\ m.dW = [i \in 1..(Len(m.times) - 1) |->
                 [f \in 1..factors |->
                    [p \in 1..m.n_paths |-> standard_normal(m.seed, i, f, p)]]]

\* C20: the random numbers of a simulation are drawn once, at construction
\* and before the first evolve call, from a generator of its own that is
\* seeded with seed; the construction leaves the state of the module-level
\* generator as it was at the call; and two simulations with the same model,
\* times, n_paths and seed have the same dW and the same X, whatever use was
\* made of the module-level generator in between
C20_PrivateGenerator ==
    /\ \A m \in DrawnSimulations \cup BuiltSimulations : DrawnOnce(m)
    /\ \A m \in {frame} : (m.op = "simulate" /\ m.pc # "idle") => m.global = m.sim.was
    /\ \A m \in {frame} :
          (m.op = "simulate" /\ Len(m.sims) = 2) =>
              ( << m.sims[1].model, m.sims[1].times, m.sims[1].n_paths, m.sims[1].seed >>
                    = << m.sims[2].model, m.sims[2].times, m.sims[2].n_paths, m.sims[2].seed >>
                => m.sims[1].dW = m.sims[2].dW /\ m.sims[1].X = m.sims[2].X )

\* C20: two simulations with the same arguments have been constructed, with
\* random numbers that are not all equal, and the module-level generator was
\* in another state at the second construction than at the first
C20_Witness ==
    /\ frame.op = "simulate"
    /\ Len(frame.sims) = 2
    /\ << frame.sims[1].times, frame.sims[1].n_paths, frame.sims[1].seed >>
           = << frame.sims[2].times, frame.sims[2].n_paths, frame.sims[2].seed >>
    /\ Len(frame.sims[1].times) > 2
    /\ frame.sims[1].dW[1] # frame.sims[1].dW[2]
    /\ frame.sims[1].was # frame.sims[2].was

-----------------------------------------------------------------------------
(* Properties of the objects behind a pricing run *)

\* C21: after construction the tensor simulation.X is never written: at
\* every point of the pricing runs over an AMC solver of either variant (in
\* states, in roll_back, in the Regression that roll_back fits, in the payoff
\* evaluation on the returned view) the buffer of X holds the entries that
\* the simulation has put there
C21_XNeverWritten ==
    (frame.op = "memory" /\ IsAmc(method)) => frame.store[0] = method.simulation.X

\* a run over an AMC solver with StateVariableControls has ended: its states
\* were views of X, a payoff was evaluated on them, and a roll_back call
\* has fitted a Regression whose controls were a view of X
C21_Witness ==
    /\ frame.op = "memory"
    /\ frame.pc = "done"
    /\ IsAmc(method)
    /\ method.controls.kind = "StateVariable"
    /\ method.minSampleIdx > 0
    /\ \E i \in 1..Len(frame.log) :
          /\ frame.log[i].T0 > 0
          /\ frame.log[i].ret.ok
          /\ frame.log[i].ret.x0 = AmcStates(method, frame.log[i].T0)

\* the roll_back calls that have ended in the runs made with frame.obj
MemoryCalls == IF frame.op = "memory" THEN frame.log ELSE << >>

\* C26: roll_back leaves the fields of the method object and the input arrays
\* x1, U1, H1 as they were, and keeps nothing from one call to the next: the
\* object is as constructed at every point, the local names of a call (the
\* Regression among them) are gone when the run goes on, the arrays of the
\* caller hold after the call what they held before it, and the result of
\* the call is the one that the construction-time object gives for the
\* arguments alone, whatever calls and runs were made before; two runs of
\* the same schedule with the one object give the same result
C26_NoRetainedState ==
    /\ frame.op = "memory" => frame.obj = method
    /\ (frame.op = "memory" /\ frame.pc \in {"loop", "payoff", "final", "interp", "done"})
          => frame.loc = NoLocals
    /\ \A i \in {Len(MemoryCalls)} \ {0} :
          \A c \in {MemoryCalls[i]} :
             /\ c.exit = c.entry
             /\ c.ret = RollBack(method, c.T0, c.T1, c.entry[1], c.entry[2], c.entry[3])
    /\ frame.op = "memory" =>
          \A i, j \in 1..Len(frame.npvs) :
             frame.npvs[i].expiry_times = frame.npvs[j].expiry_times
                => frame.npvs[i] = frame.npvs[j]

\* one AMC solver has priced a schedule of two exercises, fitting a
\* Regression, and after it another schedule
C26_Witness ==
    /\ frame.op = "memory"
    /\ frame.pc = "done"
    /\ method.kind = "Amc"
    /\ method.minSampleIdx > 0
    /\ Len(frame.npvs) = 2
    /\ frame.npvs[1].expiry_times # frame.npvs[2].expiry_times
    /\ Len(frame.npvs[1].expiry_times) = 2
    /\ Len(frame.log) = 3
    /\ frame.log[1].T0 > 0
    /\ frame.log[3].entry[3] # frame.log[3].ret.H0

\* the latest direct roll_back call on an AmcSolver, if it has returned
AmcSolverCalls ==
    {c \in {frame} : c.op = "roll_back" /\ c.pc = "done" /\ method.kind = "Amc" /\ c.ret.ok}

\* N0 / N1 * max(U1, H1) on every path, for the call c
DiscountedMaximum(c) ==
    Discounted(numeraire(method.simulation.model, States(method, c.T0).v, c.T0),
               numeraire(method.simulation.model, c.x1.v, c.T1),
               Maximum(c.U1, c.H1))

\* the test of line 76 in the terms of the constructor arguments
FitExpected(c) ==
    c.T0 > 0 /\ IntOf(FMul(c.split_ratio, FInt(method.simulation.n_paths))) > 0

\* C22 as stated: AmcSolver.roll_back creates a Regression exactly when
\* T0 > 0 and int(split_ratio * n_paths) > 0, and in every other case H0 is
\* N0/N1 * max(U1, H1) path by path
C22_DiscountedMaximum ==
    \A c \in AmcSolverCalls :
        /\ c.R.fitted <=> FitExpected(c)
        /\ ~FitExpected(c) => c.ret.H0 = DiscountedMaximum(c)

\* C22, amended: AmcSolver.roll_back creates a Regression exactly when T0 > 0
\* and int(split_ratio * n_paths) > 0; in every other case no Regression is
\* created and V0 is N0/N1 * max(U1, H1) path by path, which is H0 for
\* T0 # 0 and whose mean over the sample paths is the one entry of H0 for
\* T0 = 0
C22_FitOrDiscountedMaximum ==
    \A c \in AmcSolverCalls :
        /\ c.R.fitted <=> FitExpected(c)
        /\ c.R.fitted <=> c.C # << >>
        /\ (~FitExpected(c) /\ c.T0 # 0) => c.ret.H0 = DiscountedMaximum(c)
        /\ (~FitExpected(c) /\ c.T0 = 0) =>
              \A sampleIdx \in { IF method.minSampleIdx < method.simulation.n_paths
                                  THEN method.minSampleIdx ELSE 0 } :
                 c.ret.H0 = << Mean(Slice(DiscountedMaximum(c), sampleIdx,
                                          method.simulation.n_paths)) >>

\* a call to T0 = 0 on a solver with a fit subset has fitted nothing and has
\* returned one mean, where the discounted maximum differs from path to path
C22_Witness ==
    \E c \in AmcSolverCalls :
        /\ c.T0 = 0
        /\ method.minSampleIdx > 0
        /\ ~c.R.fitted
        /\ Len(c.ret.H0) = 1
        /\ \E p, q \in 1..method.simulation.n_paths :
              DiscountedMaximum(c)[p] # DiscountedMaximum(c)[q]

\* the latest direct roll_back call to T0 = 0 on an AMC solver of either variant
AmcCallsToZero ==
    {c \in {frame} : c.op = "roll_back" /\ c.pc = "done" /\ c.T0 = 0 /\ c.ret.ok}

\* the paths that enter the mean at T0 = 0: all if int(split_ratio * n_paths)
\* is at least n_paths, and those from that index onward (0-based) otherwise
SamplePaths(c) ==
    The({ IF first >= method.simulation.n_paths THEN 1..method.simulation.n_paths
          ELSE (first + 1)..method.simulation.n_paths
          : first \in {IntOf(FMul(c.split_ratio, FInt(method.simulation.n_paths)))} })

\* C28: in both AMC variants the mean at T0 == 0 is never over an empty set of
\* paths: it is the mean of the discounted values over all paths when
\* int(split_ratio * n_paths) >= n_paths, and over the paths from index
\* int(split_ratio * n_paths) onward otherwise
C28_MeanNeverEmpty ==
    \A c \in AmcCallsToZero :
        \A V0 \in {ValuesAtZero(c.T1, c.x1, c.U1, c.H1)}, S \in {SamplePaths(c)} :
            /\ S # {}
            /\ Len(c.ret.H0) = 1
            /\ ~IsNaN(c.ret.H0[1])
            /\ c.ret.H0[1] = FDiv(FSum([i \in 1..Cardinality(S) |->
                                           V0[method.simulation.n_paths - Cardinality(S) + i]]),
                                  FInt(Cardinality(S)))

\* a call to T0 = 0 on a solver with split_ratio = 1: every path is in the
\* fit subset, and the mean was taken over all paths, whose values differ
C28_Witness ==
    \E c \in AmcCallsToZero :
        /\ c.split_ratio = FixOne
        /\ method.minSampleIdx = method.simulation.n_paths
        /\ \A V0 \in {ValuesAtZero(c.T1, c.x1, c.U1, c.H1)} :
              /\ c.ret.H0 = << Mean(V0) >>
              /\ \E p, q \in 1..Len(V0) : V0[p] # V0[q]

\* the abscissae at which roll_back of the quadrature method q reads its
\* integrand in the wrapped call c: the grid points x1 for SimpsonIntegration
\* (lines 76-78) and the knots of the spline segments for
\* CubicSplineExactIntegration (lines 128-137), and the Gauss-Hermite points
\* sqrt(2)*sigma*hermX[k] + mu of every state x0[i] for HermiteIntegration
\* (lines 96-99)
IntegrandAbscissae(q, c) ==
    IF q.kind = "Hermite"
    THEN The({ { FAdd(FMul(FMul(Sqrt(FInt(2)), sig), q.herm.hermX[j[2]]),
                      T_forward_expectation(q.hwModel, c.T0, x0.v[j[1]], c.T1))
                 : j \in (1..Len(x0.v)) \X (1..Len(q.herm.hermX)) }
               : x0 \in {DensityStates(q, c.T0)},
                 sig \in {Sqrt(variance(q.hwModel, c.T0, c.T1))} })
    ELSE { c.x1.v[j] : j \in 1..Len(c.x1.v) }

\* C23: when the break-even decorator has split the grid, each of the two
\* wrapped roll_back calls that returned has integrated over its own
\* sub-range only: every abscissa at which it has read the integrand lies
\* between the first and the last point of the sub-grid passed to it, so that
\* the sum of the two results counts no part of the domain twice
C23_OwnSubRange ==
    \A c \in BreakEvenCalls :
        Len(c.inner) = 2 =>
            \A i \in 1..2 :
                c.inner[i].ret.ok =>
                    \A z \in IntegrandAbscissae(method.method, c.inner[i]) :
                        /\ c.inner[i].x1.v[1] <= z
                        /\ z <= c.inner[i].x1.v[Len(c.inner[i].x1.v)]

\* the direct roll_back call on a break-even decorator, once it has split
\* the grid at a root
SplitCalls ==
    {c \in {frame} : /\ c.op = "break_even"
                     /\ c.pc \in {"lower", "upper", "done"}
                     /\ c.sp.roots # << >>}

\* C29: whenever the break-even decorator splits at a root xStar, each of the
\* two sub-grids that it passes to the wrapped method is strictly increasing
\* and has at least two points, xStar and at least one point of the grid
C29_SubGridsProper ==
    \A c \in SplitCalls :
        /\ Len(c.sp.lX1) >= 2
        /\ Len(c.sp.uX1) >= 2
        /\ StrictlyIncreasing(c.sp.lX1)
        /\ StrictlyIncreasing(c.sp.uX1)
        /\ c.sp.lX1[Len(c.sp.lX1)] = c.sp.xStar
        /\ c.sp.uX1[1] = c.sp.xStar

\* the theta_step call with theta # 0, if it has ended
ImplicitCalls == {c \in ThetaCalls : c.theta # 0}

\* the pivots of the elimination for the matrix A: the main diagonal after
\* the decomposition
Pivots(A) == Eliminate(A.L, A.C, A.U, 2).b

\* q is num / den and p is a * b without rounding
ExactQuot(q, num, den) == q * den = num * FixOne

ExactProd(p, a, b) == p * FixOne = a * b

\* the solution of A x = rhs by elimination and the two substitutions
\* involves no rounding in the fixed-point arithmetic
ExactSolve(A, rhs) ==
    \A lu \in {Eliminate(A.L, A.C, A.U, 2)} :
       \A z \in {Forward(lu.a, rhs, << rhs[1] >>, 2)}, xs \in {solve_tridiagonalsystem(A, rhs)} :
          /\ ~HasNaN(xs)
          /\ \A i \in 1..(Len(rhs) - 1) :
                /\ ExactQuot(lu.a[i], A.L[i], lu.b[i])
                /\ ExactProd(A.C[i + 1] - lu.b[i + 1], A.U[i], lu.a[i])
                /\ ExactProd(rhs[i + 1] - z[i + 1], lu.a[i], z[i])
                /\ (A.U[i] * xs[i + 1]) % FixOne = 0
                /\ ExactQuot(xs[i], z[i] - FMul(A.U[i], xs[i + 1]), lu.b[i])
          /\ ExactQuot(xs[Len(rhs)], z[Len(rhs)], lu.b[Len(rhs)])

\* row i of A v, times FixOne, without rounding
RowOfAv(A, v, i) ==
    (IF i > 1 THEN A.L[i - 1] * v[i - 1] ELSE 0)
    + A.C[i] * v[i]
    + (IF i < Len(v) THEN A.U[i] * v[i + 1] ELSE 0)

\* C24: a theta_step call with theta # 0 on a system of any size n >= 1 in
\* which no pivot of the elimination is zero has passed
\* A = I + stepSize*theta*M and b = [I - stepSize*(1-theta)*M] r to
\* solve_tridiagonalsystem, which has overwritten b with the solution of
\* A x = b, and has returned it: A v = b holds row by row (shown where the
\* arithmetic of the model does not round)
C24_SolvesSystem ==
    \A c \in ImplicitCalls :
        /\ c.A = IdentityPlus(FMul(c.stepSize, c.theta), c.M)
        /\ c.rhs = TriDot(IdentityPlus(FNeg(FMul(c.stepSize, FSub(FixOne, c.theta))), c.M),
                          c.array_RHS)
        /\ c.ret = c.b
        /\ c.solves = 1
        /\ ((\A i \in 1..Len(c.rhs) : Pivots(c.A)[i] # 0) /\ ExactSolve(c.A, c.rhs))
              => \A i \in 1..Len(c.rhs) : RowOfAv(c.A, c.ret, i) = c.rhs[i] * FixOne

\* a call with theta # 0 on a system of three rows with entries below and
\* above the diagonal and no zero pivot was solved without rounding, and the
\* solution differs from the right-hand side in every row
C24_Witness ==
    \E c \in ImplicitCalls :
        /\ Len(c.rhs) = 3
        /\ c.A.L[1] # 0
        /\ c.A.U[1] # 0
        /\ \A i \in 1..3 : Pivots(c.A)[i] # 0
        /\ ExactSolve(c.A, c.rhs)
        /\ \A i \in 1..3 : c.ret[i] # c.rhs[i]
        /\ \A i \in 1..3 : RowOfAv(c.A, c.ret, i) = c.rhs[i] * FixOne

\* the passes of solve_tridiagonalsystem for n rows in the order of the code:
\* the decomposition for i = 1 .. n-1, the forward substitution for
\* i = 1 .. n-1, the backward substitution for i = n-1 .. 1
ExpectedPasses(n) ==
    [j \in 1..(3 * (n - 1)) |->
        IF j <= n - 1 THEN << "lu", j >>
        ELSE IF j <= 2 * (n - 1) THEN << "forward", j - (n - 1) >>
        ELSE << "backward", 3 * (n - 1) - j + 1 >>]

\* row i of A is dominated by its diagonal entry
DiagonallyDominant(A) ==
    \A i \in 1..Len(A.C) :
        FAbs(A.C[i]) >= (IF i > 1 THEN FAbs(A.L[i - 1]) ELSE 0)
                        + (IF i < Len(A.C) THEN FAbs(A.U[i]) ELSE 0)

\* C25: solve_tridiagonalsystem does no pivoting and has no safeguard: for
\* every tridiagonal input, with or without diagonal dominance and zero
\* pivots, it makes its passes in the order of the indices, each on the row
\* of its index, leaves the upper diagonal as it is, makes all of them, and
\* raises no error of its own
C25_NoSafeguard ==
    frame.op = "theta_step" =>
        /\ frame.err = "none"
        /\ frame.pc \in {"lu", "forward", "backward", "done"} /\ frame.theta # 0
              => /\ IsPrefix(frame.sol.trace, ExpectedPasses(Len(frame.array_C)))
                 /\ frame.sol.c = frame.A.U
        /\ frame.pc = "done" /\ frame.theta # 0
              => frame.sol.trace = ExpectedPasses(Len(frame.array_C))

\* a call on a system of three rows that is not diagonally dominant and whose
\* second pivot is zero has made every pass and has returned, with entries
\* that are not finite
C25_Witness ==
    \E c \in ImplicitCalls :
        /\ Len(c.rhs) = 3
        /\ ~DiagonallyDominant(c.A)
        /\ Pivots(c.A)[1] # 0
        /\ Pivots(c.A)[2] = 0
        /\ c.sol.trace = ExpectedPasses(3)
        /\ c.err = "none"
        /\ HasNaN(c.ret)

-----------------------------------------------------------------------------
(* Properties of the volatility term structure *)

\* the segment of t: the smallest i with t <= t_i, the last one beyond t_m
VolSegment(hw, t) ==
    IF \E i \in 1..Len(hw.volatility_times) : t <= hw.volatility_times[i]
    THEN CHOOSE i \in 1..Len(hw.volatility_times) :
             /\ t <= hw.volatility_times[i]
             /\ \A j \in 1..(i - 1) : hw.volatility_times[j] < t
    ELSE Len(hw.volatility_times)

\* the last knot before t (there is one when t is beyond the first knot)
LastKnotBefore(hw, t) ==
    CHOOSE j \in 1..Len(hw.volatility_times) :
        /\ hw.volatility_times[j] < t
        /\ \A i \in (j + 1)..Len(hw.volatility_times) : hw.volatility_times[i] >= t

AllEqual(s) == \A i \in 1..Len(s) : s[i] = s[1]

\* Exp of a whole number, without rounding
ExactExp(q) == q % FixOne = 0 /\ (q < 0 => FixOne % 2^(0 - (q \div FixOne)) = 0)

\* one step of the recursion of y involves no rounding
ExactYStep(hw, t0, y0, s1, t) ==
    \A g \in {G_prime(hw, t0, t)}, ss \in {FMul(s1, s1)},
       e2 \in {Exp(FNeg(FMul(2 * hw.mean_reversion, t - t0)))} :
       /\ ExactProd(FMul(hw.mean_reversion, t - t0), hw.mean_reversion, t - t0)
       /\ ExactExp(FNeg(FMul(hw.mean_reversion, t - t0)))
       /\ ExactExp(FNeg(FMul(2 * hw.mean_reversion, t - t0)))
       /\ ExactProd(e2, g, g)
       /\ ExactProd(FMul(e2, y0), e2, y0)
       /\ ExactProd(ss, s1, s1)
       /\ ExactProd(FMul(ss, FixOne - e2), ss, FixOne - e2)
       /\ ExactQuot(FDiv(FMul(ss, FixOne - e2), 2 * hw.mean_reversion),
                    FMul(ss, FixOne - e2), 2 * hw.mean_reversion)

\* the first i entries of the pre-calculated grid involve no rounding
RECURSIVE ExactGrid(_, _)
ExactGrid(hw, i) ==
    \/ i = 0
    \/ /\ ExactGrid(hw, i - 1)
       /\ ExactYStep(hw, IF i = 1 THEN 0 ELSE hw.volatility_times[i - 1],
                     IF i = 1 THEN 0 ELSE y_(hw, i - 1),
                     hw.volatility_values[i], hw.volatility_times[i])

\* y(t) involves no rounding
ExactY(hw, t) ==
    \A idx \in {SearchSorted(hw.volatility_times, t)} :
       /\ ExactGrid(hw, idx)
       /\ ExactYStep(hw, IF idx = 0 THEN 0 ELSE hw.volatility_times[idx],
                     IF idx = 0 THEN 0 ELSE y_(hw, idx),
                     hw.volatility_values[Min(idx, Len(hw.volatility_values) - 1) + 1], t)

\* C27: for knots t_1 < ... < t_m, sigma(t) is the volatility of the segment
\* of t (the smallest i with t <= t_i, the last one beyond t_m), and y(t) is
\* one step of the recursion with that volatility, from (0, 0) up to the
\* first knot and from the last knot before t and its pre-calculated value
\* otherwise; y(t_i) is the pre-calculated y_[i]; and with equal volatility
\* values sigma(t) and y(t) are those of the model with a single knot of
\* that value (y where the arithmetic does not round)
C27_VolatilitySegments ==
    frame.op = "volatility" /\ frame.pc = "ready" /\ frame.last.fn # "none" =>
        \A hw \in {frame.model}, t \in {frame.last.t} :
           \A s1 \in {hw.volatility_values[VolSegment(hw, t)]} :
              /\ frame.last.fn = "sigma" =>
                    /\ frame.last.ret = s1
                    /\ AllEqual(hw.volatility_values) => frame.last.ret = frame.last.flat
              /\ frame.last.fn = "y" =>
                    /\ frame.last.ret =
                          IF t <= hw.volatility_times[1]
                          THEN yStep(hw, 0, 0, s1, t)
                          ELSE yStep(hw, hw.volatility_times[LastKnotBefore(hw, t)],
                                     frame.y_[LastKnotBefore(hw, t)], s1, t)
                    /\ \A i \in 1..Len(hw.volatility_times) :
                          t = hw.volatility_times[i] => frame.last.ret = frame.y_[i]
                    /\ ( /\ AllEqual(hw.volatility_values)
                         /\ ExactY(hw, t)
                         /\ ExactY(frame.model_flat, t) )
                       => frame.last.ret = frame.last.flat

\* y is asked at the third of three knots with equal volatilities, the single
\* knot of the other model is the first one, and nothing is rounded
C27_Witness ==
    /\ frame.op = "volatility"
    /\ frame.pc = "ready"
    /\ frame.last.fn = "y"
    /\ Len(frame.model.volatility_times) = 3
    /\ AllEqual(frame.model.volatility_values)
    /\ frame.last.t = frame.model.volatility_times[3]
    /\ frame.model_flat.volatility_times[1] = frame.model.volatility_times[1]
    /\ frame.model.volatility_times[1] > 0
    /\ ExactY(frame.model, frame.last.t)
    /\ ExactY(frame.model_flat, frame.last.t)
    /\ frame.last.ret = frame.y_[3]
    /\ frame.last.ret = frame.last.flat
    /\ frame.y_[1] > 0
    /\ frame.y_[1] < frame.y_[2]
    /\ frame.y_[2] < frame.y_[3]

-----------------------------------------------------------------------------
(* Properties of AmcSolver.nearest_index and AmcSolver.states *)

\* C30: for non-empty ascending simulation times, nearest_index(t) is an
\* index in [0, len(times) - 1] of a simulation time nearest to t, of the
\* later time when two times are equally near, and states(T) returns the
\* paths at that index without an error, whether or not T is a simulation time
C30_NearestTime ==
    frame.op = "nearest" /\ frame.pc = "done" =>
        \A times \in {method.simulation.times}, t \in {frame.t}, i \in {frame.idx} :
           /\ i \in 0..(Len(times) - 1)
           /\ \A j \in 1..Len(times) : FAbs(t - times[i + 1]) <= FAbs(t - times[j])
           /\ \A j \in 1..Len(times) :
                 FAbs(t - times[j]) = FAbs(t - times[i + 1]) => times[j] <= times[i + 1]
           /\ frame.fn = "states" =>
                 /\ frame.err = "none"
                 /\ frame.ret = Arr2(method.simulation.X[i + 1])

\* states(T) is asked at a T half-way between the first two of three distinct
\* simulation times and returns the paths at the second one, which differ from
\* those at the first
C30_Witness ==
    /\ frame.op = "nearest"
    /\ frame.pc = "done"
    /\ frame.fn = "states"
    /\ Len(method.simulation.times) = 3
    /\ StrictlyIncreasing(method.simulation.times)
    /\ frame.t > method.simulation.times[1]
    /\ frame.t - method.simulation.times[1] = method.simulation.times[2] - frame.t
    /\ frame.idx = 1
    /\ frame.err = "none"
    /\ frame.ret = Arr2(method.simulation.X[2])
    /\ method.simulation.X[2] # method.simulation.X[1]

=============================================================================
